---- MODULE Spec2Model ----
(***************************************************************************)
(* LegoClicker native bridge: a model of the two builds of the bridge,     *)
(*   bridge.cpp      (1.8.9, IAT hook, JNI on the render thread)           *)
(*   bridge_121.cpp  (1.21, MinHook + ImGui, background polling thread)    *)
(* The variable `build` selects the build a behaviour is about.  Each      *)
(* subsystem (config parser, projector, lifecycle) has its own             *)
(* specification; the variables of the other subsystems stay at their      *)
(* initial values in it.                                                   *)
(***************************************************************************)
EXTENDS Integers, Sequences, FiniteSets, TLC

VARIABLES
    build,        \* "bridge" | "bridge_121": which translation unit runs
    g_config,     \* Config g_config (fields of the running build)
    cfgLine,      \* the last complete line handed to ParseConfig
    cfgThrew,     \* an exception left ParseConfig (std::terminate follows)
    projIn,       \* arguments of one projector call (world point, camera)
    projOut,      \* what the call returned: [fn, ok, sx, sy]
    g_running,    \* the running flag the loops test
    loaded,       \* the bridge DLL is mapped in the host process
    crashed,      \* a thread ran code of the unmapped DLL
    unloadPc,     \* the unload helper thread Detach() spawns
    swapHooked,   \* the frame-present entry point is redirected to the bridge
    winProc,      \* the window procedure the game window dispatches to
    g_wndProcHookedHwnd,   \* non-null
    g_origWndProc,         \* non-null
    renderPhase,  \* 0 nothing, 1 window hooked (121), 2 overlay initialised
    renderJni,    \* the render callback has issued a host (JNI) call
    g_pendingJson,\* bridge.cpp: entity JSON left by the render callback
    srvPc,        \* position of MainThread / ServerLoop
    attempts,     \* discovery passes run so far
    client,       \* the controller's connection: none, pending, connected, closed
    sent,         \* the last state report sent to the controller
    hostStage,    \* host start-up: 0 nothing, 1 class loader, 2 root instance
    hostWorld,    \* the host is in a world (other players, containers)
    hostOffer,    \* the handle the host returned in the latest pass
    roles,        \* the accessor cache (0 = Unresolved, else a handle)
    g_stateJniReady,
    g_mapped,     \* bridge.cpp
    tagRoles,     \* bridge.cpp: the roles RenderNametags needs are resolved
    pollPc,       \* position of ChestScanThreadProc
    pass,         \* number of the current poll pass
    pub,          \* published cells, each stamped with the pass that wrote it
    rdPc,         \* position of the render callback's copies
    rd,           \* the render callback's copies (stamps)
    mapped,       \* what the latest discovery pass returned
    serverJni,    \* the network thread has issued a host (JNI) call in its loop
    wire,         \* the bytes the controller has written to the connection
    rcvd,         \* how many of them recv() has handed over
    readBuf,      \* std::string readBuf of the per-connection loop
    parsed,       \* the arguments of the ParseConfig calls, in call order
    entIn,        \* one player of the copied list and the copied camera state
    entOut,       \* the entry the state line carries for that player
    tagSmooth,    \* the smoothing entry of one tracked player: init, x, y
    tagProj,      \* the position projected for that player in the latest frame
    tagFrame,     \* frames in which the player was drawn
    imgui,        \* g_imguiPhase1Done, g_imguiInitialized, ... of hwglSwapBuffers
    currentRc,    \* wglGetCurrentContext(): the context current in the frame
    skipGLDeletes,\* the overlay backend's skip-deletes switch
    ovHist,       \* frame count; frames of detection, teardown, re-init; deletes
    camRole,      \* g_cameraPosF_121, g_vec3dX/Y/Z_121: the pass that set each
    chatRole,     \* g_chatScreenClass, g_chatScreenCtor, g_chatCtorKind
    discLoop,     \* MainThread's discovery loop: attempt, done
    jniExc,       \* per thread: a host exception is pending on its JNIEnv
    jniBad,       \* host calls the last operation issued with one pending
    g_playerList, \* what UpdatePlayerListOverlay published
    pollHist,     \* the polling loop: iterations done, the last one's faults
    accCache,     \* the accessor cache: which handles are resolved
    gated,        \* the last gated feature run: accessors used, data published
    scanIn,       \* the loaded classes, in the order the host enumerates them
    scanOut,      \* the fallback scan's result: done, the class selected (0: none)
    tick,         \* GetTickCount(), written relative to the wrap of the 32-bit counter
    g_lastPlayerListUpdateMs,\* when the entity-list scan last ran
    g_lastChestScanMs,\* when the container scan last ran
    g_worldTransitionEndMs,\* end of the world-transition window
    g_lastLoggedScreen,\* the screen chain UpdateJniState saw last
    g_chunkBlockEntitiesMapField_121,\* WorldChunk.blockEntities: 0 or the handle
    scanHist,     \* sleeps so far; true time since each scan ran; what the last scan did
    trkNow,       \* ms since the first overlay frame
    frameMs,      \* ms between two frames of the host
    trkFrames,    \* frames hooked so far
    s_nametagSmooth,\* bridge_121: smoothing entries by key
    g_tagSmoothing,\* bridge: smoothing entries by key
    g_tagFrameCounter,\* bridge: frames that reached the tag pass
    trkHist,      \* what the last frame did
    nearIn,       \* entity-list pass: the configuration and the host's player array
    nearOut,      \* entity-list pass: the sorted candidates and the entries built
    passIn,       \* discovery pass: what the host offers
    passOut,      \* discovery pass: what was attempted, resolved and reported
    mtxHolder,    \* the thread holding each mutex
    mtxWork,      \* what the holder does while it holds it
    renderAt,     \* the mutex the render callback stands at
    inFrame,      \* ms the render thread has spent in HookedSwapBuffers, or NotIn
    inWndProc,    \* ms a thread has spent in HookedWndProc, or NotIn
    helperSlept,  \* ms the unload helper has slept, or NotIn before Detach
    dllMapped,    \* bridge.dll is mapped
    wndHooked,    \* the window dispatches to HookedWndProc
    col,          \* the published collection a behaviour follows
    cowLocal,     \* the value being built off to the side (localList, cs)
    cowPub,       \* the published value (g_playerList, g_chestList, g_bgCamState)
    cowSnap,      \* the copies the readers took under the mutex
    cowPc,        \* the polling thread: idle or building
    plPub,       \* the published player list (entities)
    plBefore,    \* the list published before the last pass
    plIn,        \* what the last pass met
    plExit,      \* the return the last pass left by
    plPasses,    \* passes run
    g_pendingCmds, \* commands waiting, oldest first
    cmds,        \* the network thread's local vector
    cmdWire,     \* commands written to the controller
    cmdCount,    \* commands enqueued so far
    cmdConn,     \* the controller is connected
    ovDrew,      \* the last frame issued overlay draw calls
    ovDrawRc,    \* the context of the last drawing frame
    ovInitRc,    \* the context at the last backend init, 0: none
    wtWorld,     \* the host's world, 0: none
    hostScreen,  \* the screen the host shows
    wtLastScreen, \* g_lastLoggedScreen
    wtWindow,    \* turns left of the transition window
    g_chestList, \* the published chest list: its world and epoch
    g_jniInWorld, \* the in-world flag the render callback reads
    wtEpoch,     \* transitions detected so far
    wtPolls,     \* turns of the polling loop run
    wtDrawn       \* what the last frame drew of the chest list

cfgVars  == <<g_config, cfgLine, cfgThrew>>
projVars == <<projIn, projOut>>
dllVars  == <<g_running, loaded, crashed, unloadPc>>
hookVars == <<swapHooked, winProc, g_wndProcHookedHwnd, g_origWndProc,
              renderPhase>>
srvVars  == <<srvPc, attempts, client, sent>>
hostVars == <<hostStage, hostWorld, hostOffer>>
discVars == <<roles, g_stateJniReady, g_mapped, tagRoles, mapped>>
pollVars == <<pollPc, pass, pub>>
rdVars   == <<rdPc, rd, renderJni, g_pendingJson>>
recvVars == <<wire, rcvd, readBuf, parsed>>
entVars  == <<entIn, entOut>>
tagVars  == <<tagSmooth, tagProj, tagFrame>>
ovVars   == <<imgui, currentRc, skipGLDeletes, ovHist>>
roleVars == <<camRole, chatRole, discLoop>>
jniVars  == <<jniExc, jniBad, g_playerList, pollHist>>
gateVars == <<accCache, gated>>
scanVars == <<scanIn, scanOut>>
timeVars == <<tick, g_lastPlayerListUpdateMs, g_lastChestScanMs, g_worldTransitionEndMs, g_lastLoggedScreen, g_chunkBlockEntitiesMapField_121, scanHist>>
trkVars == <<trkNow, frameMs, trkFrames, s_nametagSmooth, g_tagSmoothing, g_tagFrameCounter, trkHist>>
nearVars == <<nearIn, nearOut>>
passVars == <<passIn, passOut>>
lockVars == <<mtxHolder, mtxWork, renderAt>>
unlVars == <<inFrame, inWndProc, helperSlept, dllMapped, wndHooked>>
cowVars == <<col, cowLocal, cowPub, cowSnap, cowPc>>
exitVars == <<plPub, plBefore, plIn, plExit, plPasses>>
cmdVars == <<g_pendingCmds, cmds, cmdWire, cmdCount, cmdConn>>
drawVars == <<ovDrew, ovDrawRc, ovInitRc>>
wtVars == <<wtWorld, hostScreen, wtLastScreen, wtWindow, g_chestList, g_jniInWorld, wtEpoch, wtPolls, wtDrawn>>
sideVars == <<recvVars, entVars, tagVars, ovVars, roleVars, jniVars,
             gateVars,
             scanVars,
             timeVars,
             trkVars,
             nearVars,
             passVars,
             lockVars,
             unlVars,
             cowVars,
             exitVars,
             cmdVars,
             drawVars,
             wtVars>>
lifeVars == <<dllVars, hookVars, srvVars, hostVars, discVars, pollVars, rdVars,
              serverJni>>

Builds == {"bridge", "bridge_121"}

(***************************************************************************)
(* CONFIG PARSER                                                           *)
(*                                                                         *)
(* A line is the JSON object the controller sent, abstracted to the value  *)
(* text that getStr() cuts out after the first occurrence of "key": for    *)
(* each key, or Absent when line.find() returns npos.  Modelled fields:    *)
(* one or two per parser kind (getBool, getFloat, getInt, getStr).         *)
(***************************************************************************)
Absent == "<absent>"

MaxKeys == 1      \* a line carries at most this many keys besides "type"

BoolTokens  == {"true", "false"}
NumTokens   == {"12", "abc"}
TypeTokens  == {"config", "state"}

LineKeys == {"armed", "minCPS", "nametags", "chestEsp", "nametagShowHealth",
             "nametagMaxCount", "gtbCount", "keybindNametags"}

TokensOf(k) ==
    IF k \in {"armed", "nametags", "chestEsp", "nametagShowHealth"}
    THEN BoolTokens ELSE NumTokens

\* The lines that carry exactly the keys ks besides an optional "type".
LinesWith(ks) ==
    { [k \in LineKeys \cup {"type"} |->
          IF k = "type" THEN t ELSE IF k \in ks THEN f[k] ELSE Absent] :
        f \in { g \in [ks -> BoolTokens \cup NumTokens] :
                    \A k \in ks : g[k] \in TokensOf(k) },
        t \in TypeTokens \cup {Absent} }

\* The lines the controller may send: "type" plus at most MaxKeys keys.
Lines ==
    UNION { LinesWith(ks) :
              ks \in { k2 \in SUBSET LineKeys : Cardinality(k2) <= MaxKeys } }

\* The message of the spec's test: {"type":"config","armed":true}
ArmedOnlyLine ==
    [k \in LineKeys \cup {"type"} |->
        IF k = "type" THEN "config" ELSE IF k = "armed" THEN "true" ELSE Absent]

\* getStr: "" when the key is not found, else the value text.
getStr(line, key) == IF line[key] = Absent THEN "" ELSE line[key]

getBool(line, key) == getStr(line, key) = "true"

\* std::stof / std::stoi: the number, or a throw on text that is no number.
IsNumber(v) == v \in {"12"}
NumberOf(v) == IF v = "12" THEN 12 ELSE 0

Max(a, b) == IF a > b THEN a ELSE b
Min(a, b) == IF a < b THEN a ELSE b

\* bridge_121 getFloat: 0.0f on an empty value and on a caught throw.
getFloat121(line, key) ==
    LET v == getStr(line, key)
    IN  IF v = "" THEN 0 ELSE IF IsNumber(v) THEN NumberOf(v) ELSE 0

\* bridge_121 getInt(k, def): def on an empty value and on a caught throw.
getInt121(line, key, def) ==
    LET v == getStr(line, key)
    IN  IF v = "" THEN def ELSE IF IsNumber(v) THEN NumberOf(v) ELSE def

\* Config defaults (struct Config member initialisers).
DefaultConfig121 ==
    [armed |-> FALSE, minCPS |-> 10, nametags |-> FALSE, chestEsp |-> FALSE,
     nametagHealth |-> TRUE, nametagMaxCount |-> 8, gtbCount |-> 0]

DefaultConfig189 ==
    [armed |-> FALSE, minCPS |-> 10, nametags |-> FALSE,
     nametagShowHealth |-> TRUE, keybindNametags |-> 0]

\* bridge_121 ParseConfig: every field is assigned from the line.
ParseConfig121(cfg, line) ==
    IF getStr(line, "type") # "config" THEN cfg
    ELSE [armed           |-> getBool(line, "armed"),
          minCPS          |-> getFloat121(line, "minCPS"),
          nametags        |-> getBool(line, "nametags"),
          chestEsp        |-> getBool(line, "chestEsp"),
          nametagHealth   |-> getBool(line, "nametagShowHealth"),
          nametagMaxCount |->
              Max(1, Min(20, getInt121(line, "nametagMaxCount",
                                       cfg.nametagMaxCount))),
          gtbCount        |-> getInt121(line, "gtbCount", 0)]

\* bridge.cpp getFloat / getInt call std::stof / std::stoi with no handler.
Throws189(line) ==
    \E k \in {"minCPS", "keybindNametags"} :
        getStr(line, k) # "" /\ ~IsNumber(getStr(line, k))

getFloat189(line, key) ==
    LET v == getStr(line, key) IN IF v = "" THEN 0 ELSE NumberOf(v)

getInt189(line, key) ==
    LET v == getStr(line, key) IN IF v = "" THEN -1 ELSE NumberOf(v)

\* bridge.cpp ParseConfig: fields assigned in source order; keybinds only
\* when the value is >= 0.  A throw from minCPS leaves armed assigned.
ParseConfig189(cfg, line) ==
    IF getStr(line, "type") # "config" THEN cfg
    ELSE LET c1 == [cfg EXCEPT !.armed = getBool(line, "armed")]
         IN  IF getStr(line, "minCPS") # "" /\ ~IsNumber(getStr(line, "minCPS"))
             THEN c1
             ELSE LET c2 == [c1 EXCEPT
                               !.minCPS = getFloat189(line, "minCPS"),
                               !.nametags = getBool(line, "nametags"),
                               !.nametagShowHealth =
                                   getBool(line, "nametagShowHealth")]
                      kb == getStr(line, "keybindNametags")
                  IN  IF kb # "" /\ ~IsNumber(kb) THEN c2
                      ELSE IF getInt189(line, "keybindNametags") >= 0
                           THEN [c2 EXCEPT !.keybindNametags =
                                    getInt189(line, "keybindNametags")]
                           ELSE c2

CfgInit ==
    /\ g_config = IF build = "bridge" THEN DefaultConfig189 ELSE DefaultConfig121
    /\ cfgLine = [k \in LineKeys \cup {"type"} |-> Absent]
    /\ cfgThrew = FALSE

\* The network loop hands one complete line to ParseConfig (bridge_121).
RecvLine121 ==
    /\ build = "bridge_121"
    /\ \E line \in Lines :
        /\ cfgLine' = line
        /\ g_config' = ParseConfig121(g_config, line)
    /\ UNCHANGED <<build, sideVars, cfgThrew, projVars, lifeVars>>

\* The same in bridge.cpp; an uncaught throw ends the process.
RecvLine189 ==
    /\ build = "bridge"
    /\ ~cfgThrew
    /\ \E line \in Lines :
        /\ cfgLine' = line
        /\ g_config' = ParseConfig189(g_config, line)
        /\ cfgThrew' = (getStr(line, "type") = "config" /\ Throws189(line))
    /\ UNCHANGED <<build, sideVars, projVars, lifeVars>>

vars == <<build, cfgVars, projVars, lifeVars, sideVars>>

(***************************************************************************)
(* COORDINATE PROJECTOR                                                    *)
(*                                                                         *)
(* Lengths are in tenths of a block, so the source's 0.1 threshold is 1.   *)
(* Angles are multiples of 90 degrees, where sin and cos are exact.        *)
(* Arithmetic is exact, so the isfinite() rejections never apply.          *)
(* tan(fov/2) for the 70 degree field of view is the rational TanN/TanD.   *)
(***************************************************************************)
MaxCoord == 2     \* world and camera coordinates range over -MaxCoord..MaxCoord

WinW == 1920
WinH == 1080
TanN == 7
TanD == 10

Sin(d) == CASE d % 360 = 0 -> 0 [] d % 360 = 90 -> 1
            [] d % 360 = 180 -> 0 [] d % 360 = 270 -> -1
Cos(d) == CASE d % 360 = 0 -> 1 [] d % 360 = 90 -> 0
            [] d % 360 = 180 -> -1 [] d % 360 = 270 -> 0

ISqrt(n) == CHOOSE r \in 0..n : r * r <= n /\ n < (r + 1) * (r + 1)

Coords == (-MaxCoord)..MaxCoord
Vec3s  == [x : Coords, y : Coords, z : Coords]
Yaws   == {0, 90, 180, 270}
Pitches == {-90, 0, 90}

\* Host camera geometry (Minecraft axes: +X east, +Y up, +Z south; yaw 0
\* faces south): the direction the camera looks along.
Forward(yaw, pitch) ==
    [x |-> -Sin(yaw) * Cos(pitch), y |-> -Sin(pitch), z |-> Cos(yaw) * Cos(pitch)]

Dot(a, b) == a.x * b.x + a.y * b.y + a.z * b.z

\* The host's model-view matrix for that camera, column-major as JOML
\* stores it: rows right, up, -forward.
ViewOf(yaw, pitch) ==
    LET f == Forward(yaw, pitch)
        r == [x |-> -Cos(yaw), y |-> 0, z |-> -Sin(yaw)]
        u == [x |-> -Sin(yaw) * Sin(pitch), y |-> Cos(pitch),
              z |-> Cos(yaw) * Sin(pitch)]
    IN  [i \in 0..15 |->
            CASE i = 0 -> r.x [] i = 1 -> u.x [] i = 2 -> -f.x
              [] i = 4 -> r.y [] i = 5 -> u.y [] i = 6 -> -f.y
              [] i = 8 -> r.z [] i = 9 -> u.z [] i = 10 -> -f.z
              [] i = 15 -> 1 [] OTHER -> 0]

\* A perspective projection matrix with focal scales a, b (w = -z).
PerspOf(a, b) ==
    [i \in 0..15 |->
        CASE i = 0 -> a [] i = 5 -> b [] i = 10 -> -1 [] i = 11 -> -1
          [] i = 14 -> -1 [] OTHER -> 0]

ZeroMatrix == [i \in 0..15 |-> 0]

ProjMatrices == {PerspOf(1, 1), PerspOf(1, 2), ZeroMatrix}

NoResult == [fn |-> "none", ok |-> FALSE, sx |-> -1, sy |-> -1]
Failed(fn) == [fn |-> fn, ok |-> FALSE, sx |-> -1, sy |-> -1]

\* A w test that only refuses the camera plane itself.
WRejectedZeroOnly(ndcW) == ndcW = 0

\* True when the 0.1 threshold rejects the clip-space w (tenths: w < 1).
WRejected121(ndcW) == ndcW < 1

\* bridge_121 WorldToScreen (matrix strategy).
WorldToScreen(pos, camPos, view, proj, winW, winH) ==
    LET dx == pos.x - camPos.x
        dy == pos.y - camPos.y
        dz == pos.z - camPos.z
        clipX == dx * view[0] + dy * view[4] + dz * view[8] + view[12]
        clipY == dx * view[1] + dy * view[5] + dz * view[9] + view[13]
        clipZ == dx * view[2] + dy * view[6] + dz * view[10] + view[14]
        clipW == dx * view[3] + dy * view[7] + dz * view[11] + view[15]
        ndcX == clipX * proj[0] + clipY * proj[4] + clipZ * proj[8] + clipW * proj[12]
        ndcY == clipX * proj[1] + clipY * proj[5] + clipZ * proj[9] + clipW * proj[13]
        ndcW == clipX * proj[3] + clipY * proj[7] + clipZ * proj[11] + clipW * proj[15]
    IN  IF WRejected121(ndcW) THEN Failed("WorldToScreen")
        ELSE [fn |-> "WorldToScreen", ok |-> TRUE,
              sx |-> ((ndcX + ndcW) * winW) \div (2 * ndcW),
              sy |-> ((ndcW - ndcY) * winH) \div (2 * ndcW)]

\* True when the forward-distance test rejects the point (tenths: < 1).
FwdRejected(vFwd) == vFwd < 1

\* bridge_121 WorldToScreen_Angles (angle-reconstruction strategy).
WorldToScreen_Angles(worldPos, camPos, yawDeg, pitchDeg, winW, winH) ==
    LET dx == worldPos.x - camPos.x
        dy == worldPos.y - camPos.y
        dz == worldPos.z - camPos.z
        fX == -Sin(yawDeg) * Cos(pitchDeg)
        fY == -Sin(pitchDeg)
        fZ == Cos(yawDeg) * Cos(pitchDeg)
        rX0 == fZ
        rY0 == 0
        rZ0 == -fX
        rLen0 == ISqrt(rX0 * rX0 + rY0 * rY0 + rZ0 * rZ0)
        degenerate == rLen0 = 0
        rX == IF degenerate THEN 1 ELSE rX0 \div rLen0
        rY == IF degenerate THEN 0 ELSE rY0 \div rLen0
        rZ == IF degenerate THEN 0 ELSE rZ0 \div rLen0
        uX == fY * rZ - fZ * rY
        uY == fZ * rX - fX * rZ
        uZ == fX * rY - fY * rX
        vFwd   == dx * fX + dy * fY + dz * fZ
        vRight == dx * rX + dy * rY + dz * rZ
        vUp    == dx * uX + dy * uY + dz * uZ
    IN  IF FwdRejected(vFwd) THEN Failed("WorldToScreen_Angles")
        ELSE [fn |-> "WorldToScreen_Angles", ok |-> TRUE,
              sx |-> (vRight * TanD * winH + vFwd * TanN * winW)
                        \div (2 * vFwd * TanN),
              sy |-> ((vFwd * TanN - vUp * TanD) * winH)
                        \div (2 * vFwd * TanN)]

\* bridge.cpp WorldToScreen(x, y, z, view, proj, ...): the caller passes
\* camera-relative coordinates; the threshold is 0.02 (tenths: 5 w < 1).
WorldToScreen189_Matrix(x, y, z, view, proj, w, h) ==
    LET vX == x * view[0] + y * view[4] + z * view[8] + view[12]
        vY == x * view[1] + y * view[5] + z * view[9] + view[13]
        vZ == x * view[2] + y * view[6] + z * view[10] + view[14]
        pX == vX * proj[0] + vY * proj[4] + vZ * proj[8] + proj[12]
        pY == vX * proj[1] + vY * proj[5] + vZ * proj[9] + proj[13]
        pW == vX * proj[3] + vY * proj[7] + vZ * proj[11] + proj[15]
    IN  IF 5 * pW < 1 THEN Failed("WorldToScreen189_Matrix")
        ELSE [fn |-> "WorldToScreen189_Matrix", ok |-> TRUE,
              sx |-> ((pX + pW) * w) \div (2 * pW),
              sy |-> ((pW - pY) * h) \div (2 * pW)]

ProjInputs ==
    [pos : Vec3s, cam : {[x |-> 0, y |-> 0, z |-> 0], [x |-> 1, y |-> 0, z |-> -1]},
     yaw : Yaws, pitch : Pitches, proj : ProjMatrices]

ProjIdle ==
    /\ projIn = [pos |-> [x |-> 0, y |-> 0, z |-> 0],
                 cam |-> [x |-> 0, y |-> 0, z |-> 0],
                 yaw |-> 0, pitch |-> 0, proj |-> ZeroMatrix]
    /\ projOut = NoResult

ProjInit == projIn \in ProjInputs /\ projOut = NoResult

CallWorldToScreen ==
    /\ build = "bridge_121" /\ projOut.fn = "none"
    /\ projOut' = WorldToScreen(projIn.pos, projIn.cam,
                                ViewOf(projIn.yaw, projIn.pitch), projIn.proj,
                                WinW, WinH)
    /\ UNCHANGED <<build, sideVars, cfgVars, projIn, lifeVars>>

CallWorldToScreen_Angles ==
    /\ build = "bridge_121" /\ projOut.fn = "none"
    /\ projOut' = WorldToScreen_Angles(projIn.pos, projIn.cam, projIn.yaw,
                                       projIn.pitch, WinW, WinH)
    /\ UNCHANGED <<build, sideVars, cfgVars, projIn, lifeVars>>

CallWorldToScreen189_Matrix ==
    /\ build = "bridge" /\ projOut.fn = "none"
    /\ projOut' = WorldToScreen189_Matrix(projIn.pos.x - projIn.cam.x,
                                          projIn.pos.y - projIn.cam.y,
                                          projIn.pos.z - projIn.cam.z,
                                          ViewOf(projIn.yaw, projIn.pitch),
                                          projIn.proj, WinW, WinH)
    /\ UNCHANGED <<build, sideVars, cfgVars, projIn, lifeVars>>

(***************************************************************************)
(* LIFECYCLE: hooks, discovery, control channel, unload                    *)
(***************************************************************************)
MaxAttempts == 5
MaxHandle == 2    \* the host hands out handles 1..MaxHandle
MaxPass == 2      \* poll passes are numbered 1..MaxPass

Alive == loaded /\ ~crashed

NoReport == [kind |-> "none", entities |-> FALSE, flags |-> FALSE]

\* The state line: does it list entities, are host-derived fields filled in.
Report(entities, flags) ==
    [kind |-> "state", entities |-> entities, flags |-> flags]

NoRoles == [g_gameClassLoader |-> 0, g_mcInstance |-> 0, g_screenField |-> 0,
            g_gameRendererField_121 |-> 0]

NoPub == [cam |-> 0, flags |-> 0, inWorld |-> FALSE, players |-> 0, chests |-> 0]

NoCopies == [cam |-> 0, players |-> 0, chests |-> 0]

\* The controller's overlay toggle: a config line switching the overlays
\* (nametags, chest ESP) on or off together.
LifeLines ==
    { l \in LinesWith({"nametags", "chestEsp"}) :
        l["type"] = "config" /\ l["nametags"] = l["chestEsp"] }

LifeInit ==
    /\ g_running = TRUE /\ loaded = TRUE /\ crashed = FALSE
    /\ unloadPc = "none"
    /\ swapHooked = FALSE /\ winProc = "orig"
    /\ g_wndProcHookedHwnd = FALSE /\ g_origWndProc = FALSE
    /\ renderPhase = 0 /\ renderJni = FALSE /\ g_pendingJson = FALSE
    /\ srvPc = "hook" /\ attempts = 0 /\ client = "none" /\ sent = NoReport
    /\ hostStage = 0 /\ hostWorld = FALSE /\ hostOffer = 0
    /\ roles = NoRoles /\ g_stateJniReady = FALSE
    /\ g_mapped = FALSE /\ tagRoles = FALSE /\ mapped = FALSE
    /\ pollPc = "off" /\ pass = 0 /\ pub = NoPub /\ serverJni = FALSE
    /\ rdPc = "idle" /\ rd = NoCopies

(* ---- the host and the controller (environment) ---- *)

\* The host's start-up proceeds: class loader, then the root instance.
HostAdvances ==
    /\ ~crashed /\ hostStage < 2
    /\ hostStage' = hostStage + 1
    /\ UNCHANGED <<build, sideVars, serverJni, cfgVars, projVars, dllVars, hookVars, srvVars,
                   hostWorld, hostOffer, discVars, pollVars, rdVars>>

\* The player enters or leaves a world.
HostWorldChanges ==
    /\ ~crashed /\ hostStage = 2
    /\ hostWorld' = ~hostWorld
    /\ UNCHANGED <<build, sideVars, serverJni, cfgVars, projVars, dllVars, hookVars, srvVars,
                   hostStage, hostOffer, discVars, pollVars, rdVars>>

\* The controller connects to the listening socket.
ClientConnects ==
    /\ ~crashed /\ client = "none" /\ srvPc \in {"top", "accept"}
    /\ client' = "pending"
    /\ UNCHANGED <<build, sideVars, serverJni, cfgVars, projVars, dllVars, hookVars, srvPc,
                   attempts, sent, hostVars, discVars, pollVars, rdVars>>

\* The controller closes its end of the connection.
ClientCloses ==
    /\ ~crashed /\ client = "connected"
    /\ client' = "closed"
    /\ UNCHANGED <<build, sideVars, serverJni, cfgVars, projVars, dllVars, hookVars, srvPc,
                   attempts, sent, hostVars, discVars, pollVars, rdVars>>

\* The connection breaks (the controller is killed, the peer resets):
\* from now on send() and recv() return SOCKET_ERROR.
ClientResets ==
    /\ ~crashed /\ client = "connected"
    /\ client' = "reset"
    /\ UNCHANGED <<build, sideVars, serverJni, cfgVars, projVars, dllVars, hookVars, srvPc,
                   attempts, sent, hostVars, discVars, pollVars, rdVars>>

(* ---- bridge.cpp: MainThread / ServerLoop ---- *)

\* MainThread: InstallSwapBuffersHook patches the import table, or finds
\* no importing module and leaves the entry point alone.
InstallSwapBuffersHook ==
    /\ build = "bridge" /\ Alive /\ srvPc = "hook"
    /\ \E hooked \in BOOLEAN : swapHooked' = hooked
    /\ srvPc' = "discover"
    /\ UNCHANGED <<build, sideVars, serverJni, cfgVars, projVars, dllVars, winProc,
                   g_wndProcHookedHwnd, g_origWndProc, renderPhase, attempts,
                   client, sent, hostVars, discVars, pollVars, rdVars>>

\* ServerLoop: listen, then the single call of DiscoverMappings.  It
\* returns false when the root instance does not exist yet; on success
\* which optional roles resolve depends on the host's classes.
ServerLoopDiscover ==
    /\ build = "bridge" /\ Alive /\ srvPc = "discover"
    /\ attempts' = attempts + 1
    /\ IF hostStage = 2
       THEN /\ roles' = [roles EXCEPT !.g_mcInstance = 1]
            /\ hostOffer' = 1
            /\ mapped' = TRUE
            /\ \E m \in BOOLEAN, t \in BOOLEAN :
                   g_mapped' = m /\ tagRoles' = t
       ELSE /\ mapped' = FALSE
            /\ UNCHANGED <<roles, hostOffer, g_mapped, tagRoles>>
    /\ srvPc' = "top"
    /\ UNCHANGED <<build, sideVars, serverJni, cfgVars, projVars, dllVars, hookVars, client, sent,
                   hostStage, hostWorld, g_stateJniReady, pollVars, rdVars>>

\* while (g_running) { ... } DetachCurrentThread; closesocket.
ServerLoopTop ==
    /\ build = "bridge" /\ Alive /\ srvPc = "top"
    /\ srvPc' = IF g_running THEN "accept" ELSE "exited"
    /\ UNCHANGED <<build, sideVars, serverJni, cfgVars, projVars, dllVars, hookVars, attempts,
                   client, sent, hostVars, discVars, pollVars, rdVars>>

\* accept() blocks until a controller connects.
ServerLoopAccept ==
    /\ build = "bridge" /\ Alive /\ srvPc = "accept"
    /\ client = "pending"
    /\ client' = "connected"
    /\ srvPc' = "inner"
    /\ UNCHANGED <<build, sideVars, serverJni, cfgVars, projVars, dllVars, hookVars, attempts,
                   sent, hostVars, discVars, pollVars, rdVars>>

\* Inner while (g_running).
ServerLoopInner ==
    /\ build = "bridge" /\ Alive /\ srvPc = "inner"
    /\ srvPc' = IF g_running THEN "state" ELSE "close"
    /\ UNCHANGED <<build, sideVars, serverJni, cfgVars, projVars, dllVars, hookVars, attempts,
                   client, sent, hostVars, discVars, pollVars, rdVars>>

\* ReadGameState reads the host only when mapped and the instance exists.
ReadGameState == g_mapped /\ roles.g_mcInstance # 0

\* ReadGameState under g_jniMutex, the state line, send (a failed send
\* leaves the inner loop).
ServerLoopState ==
    /\ build = "bridge" /\ Alive /\ srvPc = "state"
    /\ g_pendingJson' = IF g_config.nametags THEN FALSE ELSE g_pendingJson
    /\ IF client \in {"closed", "reset"}
       THEN srvPc' = "close" /\ UNCHANGED sent
       ELSE /\ sent' = Report(g_config.nametags /\ g_pendingJson,
                              ReadGameState)
            /\ srvPc' = "recv"
    /\ serverJni' = (serverJni \/ ReadGameState)
    /\ UNCHANGED <<build, sideVars, cfgVars, projVars, dllVars, hookVars, attempts,
                   client, hostVars, discVars, pollVars, rdPc, rd, renderJni>>

\* Pending commands, then recv: nothing, or one complete config line.
ServerLoopRecv ==
    /\ build = "bridge" /\ Alive /\ srvPc = "recv"
    /\ \/ UNCHANGED cfgVars
       \/ \E line \in LifeLines :
            /\ cfgLine' = line
            /\ g_config' = ParseConfig189(g_config, line)
            /\ UNCHANGED cfgThrew
    /\ srvPc' = "inner"
    /\ UNCHANGED <<build, sideVars, serverJni, projVars, dllVars, hookVars, attempts,
                   client, sent, hostVars, discVars, pollVars, rdVars>>

\* closesocket(g_clientSocket).
ServerLoopClose ==
    /\ build = "bridge" /\ Alive /\ srvPc = "close"
    /\ client' = "none"
    /\ srvPc' = "top"
    /\ UNCHANGED <<build, sideVars, serverJni, cfgVars, projVars, dllVars, hookVars, attempts,
                   sent, hostVars, discVars, pollVars, rdVars>>

(* ---- bridge.cpp: the render callback ---- *)

\* EnsureWndProcHook: nothing when already hooked, else subclass the window.
EnsureWndProcHook(wp, hwnd, orig) ==
    IF hwnd /\ orig
    THEN [winProc |-> wp, hwnd |-> hwnd, orig |-> orig]
    ELSE [winProc |-> "hooked", hwnd |-> TRUE, orig |-> TRUE]

\* RenderNametags passes its guards and goes on to the JNI calls.
RenderNametags ==
    g_config.nametags /\ g_mapped /\ roles.g_mcInstance # 0 /\ tagRoles

\* HookedSwapBuffers: one frame.
HookedSwapBuffers ==
    /\ build = "bridge" /\ Alive /\ swapHooked
    /\ renderPhase' = 2
    /\ LET e == EnsureWndProcHook(winProc, g_wndProcHookedHwnd, g_origWndProc)
       IN  /\ winProc' = e.winProc
           /\ g_wndProcHookedHwnd' = e.hwnd
           /\ g_origWndProc' = e.orig
    /\ renderJni' = (renderJni \/ RenderNametags)
    /\ g_pendingJson' = IF RenderNametags THEN hostWorld ELSE g_pendingJson
    /\ UNCHANGED <<build, sideVars, serverJni, cfgVars, projVars, dllVars, swapHooked, srvVars,
                   hostVars, discVars, pollVars, rdPc, rd>>

(* ---- bridge.cpp: Detach and the unload helper ---- *)

\* Detach(): clears the flag, puts the window procedure back, spawns the
\* helper.  The import-table entry is left pointing at HookedSwapBuffers.
Detach ==
    /\ build = "bridge" /\ Alive /\ unloadPc = "none"
    /\ g_running' = FALSE
    /\ IF g_wndProcHookedHwnd /\ g_origWndProc
       THEN winProc' = "orig" /\ g_wndProcHookedHwnd' = FALSE
       ELSE UNCHANGED <<winProc, g_wndProcHookedHwnd>>
    /\ unloadPc' = "sleeping"
    /\ UNCHANGED <<build, sideVars, serverJni, cfgVars, projVars, loaded, crashed, swapHooked,
                   g_origWndProc, renderPhase, srvVars, hostVars, discVars,
                   pollVars, rdVars>>

\* The helper: Sleep(100); FreeLibraryAndExitThread.
FreeLibraryAndExitThread ==
    /\ build = "bridge" /\ Alive /\ unloadPc = "sleeping"
    /\ loaded' = FALSE
    /\ unloadPc' = "done"
    /\ UNCHANGED <<build, sideVars, serverJni, cfgVars, projVars, g_running, crashed, hookVars,
                   srvVars, hostVars, discVars, pollVars, rdVars>>

\* After the unload the game's next frame calls through the patched
\* import-table entry into unmapped memory.
FrameAfterUnload ==
    /\ build = "bridge" /\ ~loaded /\ ~crashed /\ swapHooked
    /\ crashed' = TRUE
    /\ UNCHANGED <<build, sideVars, serverJni, cfgVars, projVars, g_running, loaded, unloadPc,
                   hookVars, srvVars, hostVars, discVars, pollVars, rdVars>>

\* After the unload a server thread that has not left ServerLoop resumes
\* in unmapped memory (a thread blocked in accept() when accept returns).
ServerAfterUnload ==
    /\ build = "bridge" /\ ~loaded /\ ~crashed
    /\ srvPc # "exited"
    /\ srvPc = "accept" => client = "pending"
    /\ crashed' = TRUE
    /\ UNCHANGED <<build, sideVars, serverJni, cfgVars, projVars, g_running, loaded, unloadPc,
                   hookVars, srvVars, hostVars, discVars, pollVars, rdVars>>

ServerThread189 ==
    \/ InstallSwapBuffersHook \/ ServerLoopDiscover \/ ServerLoopTop
    \/ ServerLoopAccept \/ ServerLoopInner \/ ServerLoopState
    \/ ServerLoopRecv \/ ServerLoopClose

NextLegacy ==
    \/ HostAdvances \/ HostWorldChanges \/ ClientConnects \/ ClientCloses
    \/ ClientResets
    \/ InstallSwapBuffersHook \/ ServerLoopDiscover \/ ServerLoopTop
    \/ ServerLoopAccept \/ ServerLoopInner \/ ServerLoopState
    \/ ServerLoopRecv \/ ServerLoopClose
    \/ HookedSwapBuffers \/ Detach \/ FreeLibraryAndExitThread
    \/ FrameAfterUnload \/ ServerAfterUnload

(* ---- bridge_121.cpp: discovery ---- *)

\* A pass that stores whatever loader the host returned.
StoreLoaderAlways(cur, found) == found

\* if (!g_gameClassLoader) g_gameClassLoader = NewGlobalRef(gcl);
StoreClassLoader(cur, found) == IF cur = 0 THEN found ELSE cur

\* A pass that fills the cache although the root instance is missing.
DiscoverFillingOnFailure(cache, ready, stage, h, scr) ==
    [ok |-> stage = 2,
     roles |-> [g_gameClassLoader |-> h, g_mcInstance |-> h,
                g_screenField |-> h, g_gameRendererField_121 |-> h],
     ready |-> TRUE]

\* DiscoverJniMappings: one pass.  stage is how far the host's start-up
\* got, h the handle the host returns, scr whether the screen field is
\* found.  Returns false before any role but the class loader is written
\* when the loader or the root instance is missing.
DiscoverJniMappings(cache, ready, stage, h, scr) ==
    IF stage = 0 THEN [ok |-> FALSE, roles |-> cache, ready |-> ready]
    ELSE LET c1 == [cache EXCEPT
                      !.g_gameClassLoader = StoreClassLoader(@, h)]
         IN  IF stage = 1 THEN [ok |-> FALSE, roles |-> c1, ready |-> ready]
             ELSE LET c2 == [c1 EXCEPT
                               !.g_screenField =
                                   IF scr /\ @ = 0 THEN h ELSE @,
                               !.g_mcInstance = h,
                               !.g_gameRendererField_121 = h]
                  IN  [ok |-> TRUE, roles |-> c2,
                       ready |-> c2.g_screenField # 0]

(* ---- bridge_121.cpp: MainThread ---- *)

\* MH_CreateHook / MH_EnableHook on wglSwapBuffers; MainThread returns
\* when hooking fails.
MainThreadHook ==
    /\ build = "bridge_121" /\ Alive /\ srvPc = "hook"
    /\ \E ok \in BOOLEAN :
         /\ swapHooked' = ok
         /\ srvPc' = IF ok THEN "discover" ELSE "exited"
    /\ UNCHANGED <<build, sideVars, serverJni, cfgVars, projVars, dllVars, winProc,
                   g_wndProcHookedHwnd, g_origWndProc, renderPhase, attempts,
                   client, sent, hostVars, discVars, pollVars, rdVars>>

\* for (attempt < 5) { if (DiscoverJniMappings(denv)) break; ...
MainThreadDiscover ==
    /\ build = "bridge_121" /\ Alive /\ srvPc = "discover"
    /\ attempts < MaxAttempts
    /\ \E h \in 1..MaxHandle, scr \in BOOLEAN :
         LET r == DiscoverJniMappings(roles, g_stateJniReady, hostStage, h, scr)
         IN  /\ roles' = r.roles
             /\ g_stateJniReady' = r.ready
             /\ mapped' = r.ok
             /\ hostOffer' = h
             /\ srvPc' = IF r.ok THEN "listen" ELSE "backoff"
    /\ attempts' = attempts + 1
    /\ UNCHANGED <<build, sideVars, serverJni, cfgVars, projVars, dllVars, hookVars, client, sent,
                   hostStage, hostWorld, g_mapped, tagRoles, pollVars, rdVars>>

\* ... Sleep(3000); } and the loop test.
MainThreadBackoff ==
    /\ build = "bridge_121" /\ Alive /\ srvPc = "backoff"
    /\ srvPc' = IF attempts < MaxAttempts THEN "discover" ELSE "listen"
    /\ UNCHANGED <<build, sideVars, serverJni, cfgVars, projVars, dllVars, hookVars, attempts,
                   client, sent, hostVars, discVars, pollVars, rdVars>>

\* The discovery block ends (its locals go out of scope); socket, bind,
\* listen.
MainThreadListen ==
    /\ build = "bridge_121" /\ Alive /\ srvPc = "listen"
    /\ srvPc' = "accept"
    /\ attempts' = 0
    /\ hostOffer' = 0
    /\ UNCHANGED <<build, sideVars, serverJni, cfgVars, projVars, dllVars, hookVars,
                   client, sent, hostStage, hostWorld, discVars, pollVars,
                   rdVars>>

\* while (g_running) accept().
MainThreadAccept ==
    /\ build = "bridge_121" /\ Alive /\ srvPc = "accept"
    /\ g_running /\ client = "pending"
    /\ client' = "connected"
    /\ srvPc' = "state"
    /\ UNCHANGED <<build, sideVars, serverJni, cfgVars, projVars, dllVars, hookVars, attempts,
                   sent, hostVars, discVars, pollVars, rdVars>>

\* The state line is built from copies of the published cells and sent.
MainThreadState ==
    /\ build = "bridge_121" /\ Alive /\ srvPc = "state" /\ g_running
    /\ sent' = IF client = "connected"
               THEN Report(pub.players # 0, pub.flags # 0) ELSE sent
    /\ srvPc' = "recv"
    /\ UNCHANGED <<build, sideVars, serverJni, cfgVars, projVars, dllVars, hookVars, attempts,
                   client, hostVars, discVars, pollVars, rdVars>>

\* recv: 0 bytes (peer closed) leaves the inner loop and closes the
\* socket; SOCKET_ERROR (nothing to read, or a broken connection) is
\* passed over; else one complete config line.
MainThreadRecv ==
    /\ build = "bridge_121" /\ Alive /\ srvPc = "recv"
    /\ IF client = "closed"
       THEN client' = "none" /\ srvPc' = "accept" /\ UNCHANGED cfgVars
       ELSE /\ \/ UNCHANGED cfgVars
               \/ /\ client = "connected"
                  /\ \E line \in LifeLines :
                       /\ cfgLine' = line
                       /\ g_config' = ParseConfig121(g_config, line)
                       /\ UNCHANGED cfgThrew
            /\ srvPc' = "state"
            /\ UNCHANGED client
    /\ UNCHANGED <<build, sideVars, serverJni, projVars, dllVars, hookVars, attempts,
                   sent, hostVars, discVars, pollVars, rdVars>>

(* ---- bridge_121.cpp: the render callback hwglSwapBuffers ---- *)

\* Phase 1: the window is found and its procedure replaced by hkWndProc.
SwapPhase1 ==
    /\ build = "bridge_121" /\ Alive /\ swapHooked /\ renderPhase = 0
    /\ renderPhase' = 1
    /\ winProc' = "hooked"
    /\ g_origWndProc' = TRUE
    /\ UNCHANGED <<build, sideVars, serverJni, cfgVars, projVars, dllVars, swapHooked,
                   g_wndProcHookedHwnd, srvVars, hostVars, discVars,
                   pollVars, rdVars>>

\* Phase 2: the overlay is initialised; the same frame starts
\* ChestScanThreadProc (once: s_chestThreadStarted).
SwapPhase2 ==
    /\ build = "bridge_121" /\ Alive /\ swapHooked /\ renderPhase = 1
    /\ renderPhase' = 2
    /\ pollPc' = "top"
    /\ UNCHANGED <<build, sideVars, serverJni, cfgVars, projVars, dllVars, swapHooked, winProc,
                   g_wndProcHookedHwnd, g_origWndProc, srvVars, hostVars,
                   discVars, pass, pub, rdVars>>

\* A frame begins: the overlays are drawn only in a world and when enabled.
SwapBegin ==
    /\ build = "bridge_121" /\ Alive /\ swapHooked /\ renderPhase = 2
    /\ rdPc \in {"idle", "drawn"}
    /\ pub.inWorld /\ (g_config.nametags \/ g_config.chestEsp)
    /\ rdPc' = "players"
    /\ rd' = NoCopies
    /\ UNCHANGED <<build, sideVars, serverJni, cfgVars, projVars, dllVars, hookVars, srvVars,
                   hostVars, discVars, pollVars, renderJni, g_pendingJson>>

\* playerSnap = g_playerList under g_playerListMutex.
SwapCopyPlayers ==
    /\ build = "bridge_121" /\ Alive /\ rdPc = "players"
    /\ rd' = [rd EXCEPT !.players = pub.players]
    /\ rdPc' = "cam"
    /\ UNCHANGED <<build, sideVars, serverJni, cfgVars, projVars, dllVars, hookVars, srvVars,
                   hostVars, discVars, pollVars, renderJni, g_pendingJson>>

\* cs = g_bgCamState under g_bgCamMutex.
SwapCopyCam ==
    /\ build = "bridge_121" /\ Alive /\ rdPc = "cam"
    /\ rd' = [rd EXCEPT !.cam = pub.cam]
    /\ rdPc' = "chests"
    /\ UNCHANGED <<build, sideVars, serverJni, cfgVars, projVars, dllVars, hookVars, srvVars,
                   hostVars, discVars, pollVars, renderJni, g_pendingJson>>

\* g_chestList is read under g_chestListMutex; the frame is drawn.
SwapCopyChests ==
    /\ build = "bridge_121" /\ Alive /\ rdPc = "chests"
    /\ rd' = [rd EXCEPT !.chests = pub.chests]
    /\ rdPc' = "drawn"
    /\ UNCHANGED <<build, sideVars, serverJni, cfgVars, projVars, dllVars, hookVars, srvVars,
                   hostVars, discVars, pollVars, renderJni, g_pendingJson>>

(* ---- bridge_121.cpp: ChestScanThreadProc ---- *)

\* while (g_running): a new pass begins; if (g_stateJniReady) ...
PollTop ==
    /\ build = "bridge_121" /\ Alive /\ pollPc = "top" /\ g_running
    /\ pass < MaxPass
    /\ pass' = pass + 1
    /\ pollPc' = IF g_stateJniReady THEN "cam" ELSE "clear"
    /\ UNCHANGED <<build, sideVars, serverJni, cfgVars, projVars, dllVars, hookVars, srvVars,
                   hostVars, discVars, pub, rdVars>>

\* ReadCameraState publishes g_bgCamState (needs instance and renderer).
PollCam ==
    /\ build = "bridge_121" /\ Alive /\ pollPc = "cam"
    /\ pub' = IF roles.g_mcInstance # 0 /\ roles.g_gameRendererField_121 # 0
              THEN [pub EXCEPT !.cam = pass] ELSE pub
    /\ pollPc' = "state"
    /\ UNCHANGED <<build, sideVars, serverJni, cfgVars, projVars, dllVars, hookVars, srvVars,
                   hostVars, discVars, pass, rdVars>>

\* UpdateJniState publishes the screen flags; IsInWorldNow -> g_jniInWorld.
PollState ==
    /\ build = "bridge_121" /\ Alive /\ pollPc = "state"
    /\ pub' = [pub EXCEPT
                 !.flags = IF g_stateJniReady /\ roles.g_mcInstance # 0
                              /\ roles.g_screenField # 0
                           THEN pass ELSE @,
                 !.inWorld = roles.g_mcInstance # 0 /\ hostWorld]
    /\ pollPc' = IF roles.g_mcInstance # 0 /\ hostWorld
                 THEN "players" ELSE "clear"
    /\ UNCHANGED <<build, sideVars, serverJni, cfgVars, projVars, dllVars, hookVars, srvVars,
                   hostVars, discVars, pass, rdVars>>

\* UpdatePlayerListOverlay when enabled; its 100 ms throttle may skip.
PollPlayers ==
    /\ build = "bridge_121" /\ Alive /\ pollPc = "players"
    /\ IF g_config.nametags
       THEN \E skip \in BOOLEAN :
              pub' = IF skip THEN pub ELSE [pub EXCEPT !.players = pass]
       ELSE UNCHANGED pub
    /\ pollPc' = "chests"
    /\ UNCHANGED <<build, sideVars, serverJni, cfgVars, projVars, dllVars, hookVars, srvVars,
                   hostVars, discVars, pass, rdVars>>

\* UpdateChestList when enabled; its throttle may skip.  Sleep(50).
PollChests ==
    /\ build = "bridge_121" /\ Alive /\ pollPc = "chests"
    /\ IF g_config.chestEsp
       THEN \E skip \in BOOLEAN :
              pub' = IF skip THEN pub ELSE [pub EXCEPT !.chests = pass]
       ELSE UNCHANGED pub
    /\ pollPc' = "top"
    /\ UNCHANGED <<build, sideVars, serverJni, cfgVars, projVars, dllVars, hookVars, srvVars,
                   hostVars, discVars, pass, rdVars>>

\* Not ready or not in a world: the three lists are cleared.  Sleep(50).
PollClear ==
    /\ build = "bridge_121" /\ Alive /\ pollPc = "clear"
    /\ pub' = [pub EXCEPT !.players = 0, !.chests = 0, !.cam = 0]
    /\ pollPc' = "top"
    /\ UNCHANGED <<build, sideVars, serverJni, cfgVars, projVars, dllVars, hookVars, srvVars,
                   hostVars, discVars, pass, rdVars>>

MainThread121 ==
    \/ MainThreadHook \/ MainThreadDiscover \/ MainThreadBackoff
    \/ MainThreadListen \/ MainThreadAccept \/ MainThreadState
    \/ MainThreadRecv

Next121 ==
    \/ MainThreadHook \/ MainThreadDiscover \/ MainThreadBackoff
    \/ MainThreadListen \/ MainThreadAccept \/ MainThreadState
    \/ MainThreadRecv
    \/ SwapPhase1 \/ SwapPhase2 \/ SwapBegin \/ SwapCopyPlayers
    \/ SwapCopyCam \/ SwapCopyChests
    \/ PollTop \/ PollCam \/ PollState \/ PollPlayers \/ PollChests
    \/ PollClear

(***************************************************************************)
(* INBOUND LINE BUFFER                                                     *)
(*                                                                         *)
(* The receive step of the per-connection loop, byte by byte.  recv()      *)
(* hands over a chunk of what the controller wrote; the chunk is           *)
(* terminated with 0 and appended to readBuf as a C string; every          *)
(* newline-terminated prefix is cut off and, unless empty, parsed.         *)
(***************************************************************************)
MaxStream == 4    \* bytes the controller writes on one connection
MaxChunk  == 2    \* most bytes one recv() hands over

NL  == "\n"
NUL == "NUL"
Bytes == {"a", "b", NL, NUL}

\* readBuf += buf with buf a char*: the bytes before the first 0.
RECURSIVE CString(_)
CString(chunk) ==
    IF chunk = <<>> \/ Head(chunk) = NUL THEN <<>>
    ELSE <<Head(chunk)>> \o CString(Tail(chunk))

\* readBuf.find('\n'): the first position of a newline, 0 for npos.
Find(buf, ch) ==
    IF \E i \in 1..Len(buf) : buf[i] = ch
    THEN CHOOSE i \in 1..Len(buf) :
             buf[i] = ch /\ \A j \in 1..(i - 1) : buf[j] # ch
    ELSE 0

\* A drain that forgets what is left when no newline is found.
RECURSIVE DrainDroppingRest(_)
DrainDroppingRest(buf) ==
    LET pos == Find(buf, NL)
    IN  IF pos = 0 THEN [pkts |-> <<>>, rest |-> <<>>]
        ELSE LET pkt == SubSeq(buf, 1, pos - 1)
                 d   == DrainDroppingRest(SubSeq(buf, pos + 1, Len(buf)))
             IN  [pkts |-> (IF pkt # <<>> THEN <<pkt>> ELSE <<>>) \o d.pkts,
                  rest |-> d.rest]

\* while ((pos = readBuf.find('\n')) != npos) { pkt = substr(0, pos);
\*   erase(0, pos + 1); if (!pkt.empty()) ParseConfig(pkt); }
RECURSIVE DrainLines(_)
DrainLines(buf) ==
    LET pos == Find(buf, NL)
    IN  IF pos = 0 THEN [pkts |-> <<>>, rest |-> buf]
        ELSE LET pkt == SubSeq(buf, 1, pos - 1)
                 d   == DrainLines(SubSeq(buf, pos + 1, Len(buf)))
             IN  [pkts |-> (IF pkt # <<>> THEN <<pkt>> ELSE <<>>) \o d.pkts,
                  rest |-> d.rest]

RecvIdle == wire = <<>> /\ rcvd = 0 /\ readBuf = <<>> /\ parsed = <<>>

\* The controller writes one more byte.
ControllerWrites ==
    /\ Len(wire) < MaxStream
    /\ \E b \in Bytes : wire' = Append(wire, b)
    /\ UNCHANGED <<build, cfgVars, projVars, lifeVars, entVars, tagVars, ovVars, roleVars, jniVars,
                   rcvd,
                   readBuf,
                   parsed,
                   gateVars,
                   scanVars,
                   timeVars,
                   trkVars,
                   nearVars,
                   passVars,
                   lockVars,
                   unlVars,
                   cowVars,
                   exitVars,
                   cmdVars,
                   drawVars,
                   wtVars>>

\* int r = recv(...); if (r > 0) { buf[r] = 0; readBuf += buf; drain }
RecvBytes ==
    /\ rcvd < Len(wire)
    /\ \E r \in 1..Min(MaxChunk, Len(wire) - rcvd) :
         LET d == DrainLines(readBuf \o CString(SubSeq(wire, rcvd + 1, rcvd + r)))
         IN  /\ rcvd' = rcvd + r
             /\ readBuf' = d.rest
             /\ parsed' = parsed \o d.pkts
    /\ UNCHANGED <<build, cfgVars, projVars, lifeVars, entVars, tagVars, ovVars,
                   roleVars, jniVars, wire,
                   gateVars,
                   scanVars,
                   timeVars,
                   trkVars,
                   nearVars,
                   passVars,
                   lockVars,
                   unlVars,
                   cowVars,
                   exitVars,
                   cmdVars,
                   drawVars,
                   wtVars>>

\* bridge_121.cpp MainThread, "Receive config from C#".
MainThreadRecvBytes == build = "bridge_121" /\ RecvBytes

\* bridge.cpp ServerLoop, "Read config from C# (non-blocking)".
ServerLoopRecvBytes == build = "bridge" /\ RecvBytes

(***************************************************************************)
(* STATE LINE: the entry of one player                                     *)
(*                                                                         *)
(* Lengths in tenths of a block as in the projector; the body-box offsets  *)
(* of the source (0.30; 0.15 + 0.40 k; 1.575) are taken to the nearest     *)
(* tenth.                                                                  *)
(***************************************************************************)
\* The body points in the order the three nested loops visit them.
BodyOffsets ==
    LET ys == <<2, 6, 10, 14, 18>>
        hs == <<-3, 0, 3>>
    IN  [n \in 1..45 |->
            [x |-> hs[1 + (((n - 1) \div 3) % 3)],
             y |-> ys[1 + ((n - 1) \div 9)],
             z |-> hs[1 + ((n - 1) % 3)]]]

FallbackOffset == [x |-> 0, y |-> 16, z |-> 0]

Plus(a, b) == [x |-> a.x + b.x, y |-> a.y + b.y, z |-> a.z + b.z]

\* The lambda projectPoint: the matrix strategy when the matrices were
\* read, else the angle strategy.
projectPoint(pos, camState, winW, winH) ==
    IF camState.matsOk
    THEN WorldToScreen(pos, camState.cam, camState.view, camState.proj,
                       winW, winH)
    ELSE WorldToScreen_Angles(pos, camState.cam, camState.yaw,
                              camState.pitch, winW, winH)

\* A test that takes whatever camera state was copied.
CamAlwaysUsable(camState) == TRUE

\* if (camState.camFound)
CamUsable(camState) == camState.camFound

\* Squared distance of a projected point from the screen centre.
Score(r, winW, winH) ==
    LET dx == r.sx - winW \div 2
        dy == r.sy - winH \div 2
    IN  dx * dx + dy * dy

\* The three nested loops: every body point is projected; the one kept is
\* the first, in loop order, of least score (score < bestScore).
BestBodyPoint(p, camState, winW, winH) ==
    LET t == [n \in 1..45 |->
                 projectPoint(Plus(p, BodyOffsets[n]), camState, winW, winH)]
        found == {n \in 1..45 : t[n].ok}
    IN  IF found = {} THEN [ok |-> FALSE, sx |-> -1, sy |-> -1]
        ELSE LET sc == [n \in found |-> Score(t[n], winW, winH)]
                 b  == CHOOSE n \in found :
                           \A m \in found :
                               sc[n] < sc[m] \/ (sc[n] = sc[m] /\ n <= m)
             IN  [ok |-> TRUE, sx |-> t[b].sx, sy |-> t[b].sy]

\* The entry of player p: sx, sy as sent (projected ? sx : -1).
EntityEntry(p, camState, winW, winH) ==
    IF ~CamUsable(camState)
    THEN [built |-> TRUE, projected |-> FALSE, sx |-> -1, sy |-> -1]
    ELSE LET best == BestBodyPoint(p, camState, winW, winH)
         IN  IF best.ok
             THEN [built |-> TRUE, projected |-> TRUE,
                   sx |-> best.sx, sy |-> best.sy]
             ELSE LET fall == projectPoint(Plus(p, FallbackOffset), camState,
                                           winW, winH)
                  IN  [built |-> TRUE, projected |-> fall.ok,
                       sx |-> IF fall.ok THEN fall.sx ELSE -1,
                       sy |-> IF fall.ok THEN fall.sy ELSE -1]

CamStates ==
    { [camFound |-> f, matsOk |-> m, cam |-> c, yaw |-> yw, pitch |-> pt,
       view |-> ViewOf(yw, pt), proj |-> pr] :
        f \in BOOLEAN, m \in BOOLEAN, c \in {[x |-> 1, y |-> 0, z |-> -1]},
        yw \in Yaws, pt \in Pitches, pr \in ProjMatrices }

NoEntry == [built |-> FALSE, projected |-> FALSE, sx |-> -1, sy |-> -1]

EntIdle ==
    /\ entIn = [p |-> [x |-> 0, y |-> 0, z |-> 0],
                camState |-> [camFound |-> FALSE, matsOk |-> FALSE,
                              cam |-> [x |-> 0, y |-> 0, z |-> 0],
                              yaw |-> 0, pitch |-> 0,
                              view |-> ZeroMatrix, proj |-> ZeroMatrix]]
    /\ entOut = NoEntry

EntInit == entIn \in [p : Vec3s, camState : CamStates] /\ entOut = NoEntry

\* MainThread, for (const auto& p : players): one entry of the state line.
MainThreadEntity ==
    /\ build = "bridge_121" /\ ~entOut.built
    /\ entOut' = EntityEntry(entIn.p, entIn.camState, WinW, WinH)
    /\ UNCHANGED <<build, cfgVars, projVars, lifeVars, recvVars, tagVars, ovVars,
                   roleVars, jniVars, entIn,
                   gateVars,
                   scanVars,
                   timeVars,
                   trkVars,
                   nearVars,
                   passVars,
                   lockVars,
                   unlVars,
                   cowVars,
                   exitVars,
                   cmdVars,
                   drawVars,
                   wtVars>>

(***************************************************************************)
(* OVERLAY SMOOTHING of one tracked player's nametag                       *)
(*                                                                         *)
(* Screen positions are in hundredths of a pixel, blend factors in         *)
(* hundredths; a blended position is kept to a hundredth of a pixel.       *)
(***************************************************************************)
MaxFrames == 3        \* frames in which the player is drawn
Px == 100             \* one pixel
LargeDeltaSq == 24000 \* pixels squared
SmallDeltaSq == 6

\* Positions the projection may yield: 0, 100 or 200 px on either axis.
TagPoints == [x : {0, 100 * Px, 200 * Px}, y : {0, 100 * Px, 200 * Px}]

\* overlaySmoothAlpha = max(0.15, min(0.65, DeltaTime * 14)).
Alphas == {15, 40, 65}

NoSmooth == [init |-> FALSE, x |-> 0, y |-> 0]

DeltaSq(p, sm) == (p.x - sm.x) * (p.x - sm.x) + (p.y - sm.y) * (p.y - sm.y)

\* bridge.cpp RenderNametags: first sighting, snap, or blend.
SmoothTag189(sm, p, near) ==
    IF ~sm.init THEN [init |-> TRUE, x |-> p.x, y |-> p.y]
    ELSE IF DeltaSq(p, sm) > LargeDeltaSq * Px * Px
         THEN [init |-> TRUE, x |-> p.x, y |-> p.y]
         ELSE LET blend == IF DeltaSq(p, sm) < SmallDeltaSq * Px * Px THEN 22
                           ELSE IF near THEN 14 ELSE 12
              IN  [init |-> TRUE,
                   x |-> sm.x + ((p.x - sm.x) * blend) \div 100,
                   y |-> sm.y + ((p.y - sm.y) * blend) \div 100]

\* bridge_121.cpp hwglSwapBuffers: first sighting, or blend by alpha.
SmoothTag121(sm, p, alpha) ==
    IF ~sm.init THEN [init |-> TRUE, x |-> p.x, y |-> p.y]
    ELSE [init |-> TRUE,
          x |-> sm.x + ((p.x - sm.x) * alpha) \div 100,
          y |-> sm.y + ((p.y - sm.y) * alpha) \div 100]

TagIdle ==
    tagSmooth = NoSmooth /\ tagProj = [x |-> 0, y |-> 0] /\ tagFrame = 0

\* bridge.cpp: one frame in which the player's tag is drawn.
RenderNametagsSmooth ==
    /\ build = "bridge" /\ tagFrame < MaxFrames
    /\ \E p \in TagPoints, near \in BOOLEAN :
         /\ tagProj' = p
         /\ tagSmooth' = SmoothTag189(tagSmooth, p, near)
    /\ tagFrame' = tagFrame + 1
    /\ UNCHANGED <<build, cfgVars, projVars, lifeVars, recvVars, entVars, ovVars,
                   roleVars, jniVars,
                   gateVars,
                   scanVars,
                   timeVars,
                   trkVars,
                   nearVars,
                   passVars,
                   lockVars,
                   unlVars,
                   cowVars,
                   exitVars,
                   cmdVars,
                   drawVars,
                   wtVars>>

\* bridge_121.cpp: one frame in which the player's tag is drawn.
SwapBuffersSmooth ==
    /\ build = "bridge_121" /\ tagFrame < MaxFrames
    /\ \E p \in TagPoints, alpha \in Alphas :
         /\ tagProj' = p
         /\ tagSmooth' = SmoothTag121(tagSmooth, p, alpha)
    /\ tagFrame' = tagFrame + 1
    /\ UNCHANGED <<build, cfgVars, projVars, lifeVars, recvVars, entVars, ovVars,
                   roleVars, jniVars,
                   gateVars,
                   scanVars,
                   timeVars,
                   trkVars,
                   nearVars,
                   passVars,
                   lockVars,
                   unlVars,
                   cowVars,
                   exitVars,
                   cmdVars,
                   drawVars,
                   wtVars>>

(***************************************************************************)
(* OVERLAY BACKEND: two-phase init and the deferred reset of               *)
(* hwglSwapBuffers after the host recreated its OpenGL context             *)
(***************************************************************************)
MaxOvFrames == 22   \* frames of the game window that are followed
MaxRc == 2          \* the host's contexts are numbered 1..MaxRc
WarmupFrames == 3

ImguiInit ==
    [phase1Done |-> FALSE, initialized |-> FALSE, glBackendReady |-> FALSE,
     glrc |-> 0, pendingBackendReset |-> FALSE, pendingGlrc |-> 0,
     warmupFrames |-> 0]

NoOvHist == [frame |-> 0, detectedAt |-> 0, tornAt |-> 0, initAt |-> 0,
             deletes |-> 0]

\* ovDrew: the last frame issued the overlay's draw calls; ovDrawRc: the
\* context current in the last frame that did; ovInitRc: the context current
\* at the last ImGui_ImplOpenGL3_Init (0: none yet).
DrawIdle == ovDrew = FALSE /\ ovDrawRc = 0 /\ ovInitRc = 0

OvIdle ==
    /\ imgui = ImguiInit /\ currentRc = 1 /\ skipGLDeletes = FALSE
    /\ ovHist = NoOvHist

\* ImGui_ImplOpenGL3_Shutdown of the vendored backend: the number of
\* glDelete* calls it issues (its objects: program, buffers, font texture).
ImplOpenGL3_Shutdown(skip) == IF skip THEN 0 ELSE 1

\* A teardown that leaves the switch alone.
ShutdownWithoutSkip(skip) ==
    [deletes |-> ImplOpenGL3_Shutdown(skip), skip |-> FALSE]

\* SetSkipGLDeletes(true); Shutdown(); SetSkipGLDeletes(false);
ShutdownSkippingDeletes(skip) ==
    [deletes |-> ImplOpenGL3_Shutdown(TRUE), skip |-> FALSE]

\* A reset carried out in the frame that notices the change.
ResetAtOnce(g, rc) ==
    [g EXCEPT !.initialized = TRUE, !.glBackendReady = TRUE, !.glrc = rc,
              !.warmupFrames = WarmupFrames]

\* The context changed: the reset is only scheduled.
ScheduleReset(g, rc) ==
    [g EXCEPT !.pendingBackendReset = TRUE, !.pendingGlrc = rc,
              !.warmupFrames = WarmupFrames]

\* The host destroys its context and makes a new one current.
ContextRecreated ==
    /\ build = "bridge_121"
    /\ \E rc \in 1..MaxRc : rc # currentRc /\ currentRc' = rc
    /\ UNCHANGED <<build, cfgVars, projVars, lifeVars, recvVars, entVars,
                   tagVars, roleVars, jniVars, imgui, skipGLDeletes, ovHist,
                   gateVars,
                   scanVars,
                   timeVars,
                   trkVars,
                   nearVars,
                   passVars,
                   lockVars,
                   unlVars,
                   cowVars,
                   exitVars,
                   cmdVars,
                   drawVars,
                   wtVars>>

\* No reset is ever found to be due.
ContextNeverChanged(g, rc) == FALSE

\* The test for a recreated context: the backend is up and the handle of
\* the current context is not the one it was initialised with.
ContextChanged(g, rc) ==
    g.initialized /\ g.glBackendReady /\ g.glrc # 0 /\ rc # g.glrc

\* The branch hwglSwapBuffers takes in one frame: the flags it leaves,
\* the switch, the deletes issued, whether a context change was noticed,
\* whether the frame goes on to NewFrame ... RenderDrawData.
BackendStep(g, rc, skip) ==
    IF ~g.phase1Done
    THEN [g |-> [g EXCEPT !.phase1Done = TRUE, !.glrc = rc,
                          !.warmupFrames = WarmupFrames],
          skip |-> skip, deletes |-> 0, detected |-> FALSE,
          draws |-> FALSE]
    ELSE IF g.warmupFrames > 0
    THEN [g |-> [g EXCEPT !.warmupFrames = @ - 1],
          skip |-> skip, deletes |-> 0, detected |-> FALSE,
          draws |-> FALSE]
    ELSE IF ContextChanged(g, rc)
    THEN [g |-> ScheduleReset(g, rc),
          skip |-> skip, deletes |-> 0, detected |-> TRUE,
          draws |-> FALSE]
    ELSE IF g.pendingBackendReset
    THEN LET d == ShutdownSkippingDeletes(skip)
         IN  [g |-> [g EXCEPT !.glBackendReady = FALSE, !.initialized = FALSE,
                              !.glrc = g.pendingGlrc,
                              !.pendingBackendReset = FALSE,
                              !.warmupFrames = WarmupFrames],
              skip |-> d.skip, deletes |-> d.deletes, detected |-> FALSE,
              draws |-> FALSE]
    ELSE IF ~g.initialized
    THEN [g |-> [g EXCEPT !.glBackendReady = TRUE, !.initialized = TRUE,
                          !.glrc = rc, !.warmupFrames = WarmupFrames],
          skip |-> skip, deletes |-> 0, detected |-> FALSE,
          draws |-> FALSE]
    ELSE [g |-> g, skip |-> skip, deletes |-> 0, detected |-> FALSE,
          draws |-> TRUE]

\* hwglSwapBuffers, one frame of the game window, up to the point where
\* the overlay is drawn.  ovHist records the frame in which a context
\* change was noticed, the frame in which the backend stopped being
\* initialised against the context it had, and the frame in which it
\* became initialised against a context.
SwapBuffersBackend ==
    /\ build = "bridge_121" /\ ovHist.frame < MaxOvFrames
    /\ LET f == ovHist.frame + 1
           r == BackendStep(imgui, currentRc, skipGLDeletes)
           rebound == r.g.glrc # imgui.glrc
           torn == imgui.initialized /\ (~r.g.initialized \/ rebound)
           init == r.g.initialized /\ (~imgui.initialized \/ rebound)
       IN  /\ imgui' = r.g
           /\ skipGLDeletes' = r.skip
           /\ ovHist' =
                 [frame |-> f,
                  detectedAt |-> IF r.detected THEN f ELSE ovHist.detectedAt,
                  tornAt |-> IF torn THEN f
                             ELSE IF r.detected THEN 0 ELSE ovHist.tornAt,
                  initAt |-> IF init THEN f
                             ELSE IF r.detected THEN 0 ELSE ovHist.initAt,
                  deletes |-> ovHist.deletes + r.deletes]
           /\ ovDrew' = r.draws
           /\ ovDrawRc' = IF r.draws THEN currentRc ELSE ovDrawRc
           /\ ovInitRc' = IF init THEN currentRc ELSE ovInitRc
    /\ UNCHANGED <<build, cfgVars, projVars, lifeVars, recvVars, entVars,
                   tagVars, roleVars, jniVars, currentRc,
                   gateVars,
                   scanVars,
                   timeVars,
                   trkVars,
                   nearVars,
                   passVars,
                   lockVars,
                   unlVars,
                   cowVars,
                   exitVars,
                   cmdVars,
                   wtVars>>

(***************************************************************************)
(* DISCOVERY: the roles made of several handles                            *)
(*                                                                         *)
(* A handle is recorded as the number of the pass that resolved it, 0 for  *)
(* null.  The camera-position role is g_cameraPosF_121 with g_vec3dX_121,  *)
(* g_vec3dY_121, g_vec3dZ_121; the chat-screen role is g_chatScreenClass,  *)
(* g_chatScreenCtor and g_chatCtorKind (the constructor's shape: its       *)
(* value and the pass that wrote it, 0 for the initialiser).               *)
(***************************************************************************)
NoCamRole == [posF |-> 0, x |-> 0, y |-> 0, z |-> 0]
NoChatRole == [cls |-> 0, ctor |-> 0, ctorShape |-> 0,
               kind |-> 0, kindFrom |-> 0]

\* What the host's classes offer to one pass.
HostClasses ==
    [camCls : BOOLEAN, posF : BOOLEAN, vecCls : BOOLEAN,
     x : BOOLEAN, y : BOOLEAN, z : BOOLEAN,
     chat : {"none", "byName", "byScan"}, shape : 0..2]

\* camCls / vecCls blocks of step 6: each GetFieldID result is stored as
\* it comes (null when the field is not found).
DiscoverCameraRole(cam, n, host) ==
    [posF |-> IF host.camCls THEN (IF host.posF THEN n ELSE 0) ELSE cam.posF,
     x |-> IF host.vecCls THEN (IF host.x THEN n ELSE 0) ELSE cam.x,
     y |-> IF host.vecCls THEN (IF host.y THEN n ELSE 0) ELSE cam.y,
     z |-> IF host.vecCls THEN (IF host.z THEN n ELSE 0) ELSE cam.z]

\* Step 5: by a known name (class, constructor and kind are stored), else,
\* while g_chatScreenClass is null, by the scan of the loaded classes
\* (class and constructor are stored: a (String) constructor, shape 1, or
\* the empty one, shape 0).
DiscoverChatRole(chat, n, host) ==
    IF host.chat = "byName"
    THEN [cls |-> n, ctor |-> n, ctorShape |-> host.shape,
          kind |-> host.shape, kindFrom |-> n]
    ELSE IF host.chat = "byScan" /\ chat.cls = 0 /\ host.shape \in {0, 1}
    THEN [chat EXCEPT !.cls = n, !.ctor = n, !.ctorShape = host.shape]
    ELSE chat

RoleIdle ==
    /\ camRole = NoCamRole /\ chatRole = NoChatRole
    /\ discLoop = [attempt |-> 0, done |-> FALSE]

\* One pass of the discovery loop: it fails before step 3 (nothing of
\* these roles is written), or runs to the end and ends the loop.
DiscoverRolesPass ==
    /\ build = "bridge_121"
    /\ ~discLoop.done /\ discLoop.attempt < MaxAttempts
    /\ LET n == discLoop.attempt + 1
       IN  \/ /\ discLoop' = [attempt |-> n, done |-> FALSE]
              /\ UNCHANGED <<camRole, chatRole>>
           \/ /\ discLoop' = [attempt |-> n, done |-> TRUE]
              /\ \E host \in HostClasses :
                   /\ camRole' = DiscoverCameraRole(camRole, n, host)
                   /\ chatRole' = DiscoverChatRole(chatRole, n, host)
    /\ UNCHANGED <<build, cfgVars, projVars, lifeVars, recvVars, entVars,
                   tagVars, ovVars, jniVars,
                   gateVars,
                   scanVars,
                   timeVars,
                   trkVars,
                   nearVars,
                   passVars,
                   lockVars,
                   unlVars,
                   cowVars,
                   exitVars,
                   cmdVars,
                   drawVars,
                   wtVars>>

(***************************************************************************)
(* HOST ERRORS (bridge_121.cpp)                                            *)
(*                                                                         *)
(* A thread's JNIEnv holds at most one pending exception.  t is the        *)
(* thread as one operation sees it: exc, an exception is pending; bad,     *)
(* the host calls issued while one was.  Lookups (GetFieldID,              *)
(* GetMethodID, FindClass), Call<T>Method and GetObjectArrayElement can    *)
(* raise; Get<T>Field cannot.  What a call issued with an exception        *)
(* pending leaves behind is the host's choice (keeps).                     *)
(***************************************************************************)
MaxEnts == 2
DefaultHp == 20
Threads == {"main", "poll"}
Faults == {"none", "elem", "pos", "name", "hp"}

ExceptionCheck(t) == t.exc
ExceptionClear(t) == [t EXCEPT !.exc = FALSE]

HostCall(t, raises, keeps) ==
    [exc |-> IF t.exc THEN (keeps \/ raises) ELSE raises,
     bad |-> t.bad + (IF t.exc THEN 1 ELSE 0)]

\* The call followed by nothing: what is pending stays pending.
UnguardedCall(t, raises, keeps) ==
    HostCall(t, raises, keeps)
\* x = env->Call...(); if (env->ExceptionCheck()) { env->ExceptionClear();
\* x = <null or default>; }
GuardedCall(t, raises, keeps) ==
    LET t1 == HostCall(t, raises, keeps)
    IN  IF ExceptionCheck(t1) THEN ExceptionClear(t1) ELSE t1

\* Step 6, class_4184: field_18712 and field_18714 are looked up one after
\* the other, then one check; field_18715, then one clear.
DiscoverCameraFields(t, host, keeps) ==
    LET t1 == HostCall(t, ~host.posF, keeps)
        t2 == HostCall(t1, ~host.pitchF, keeps)
        t3 == IF ExceptionCheck(t2) THEN ExceptionClear(t2) ELSE t2
        t4 == HostCall(t3, ~host.yawF, keeps)
    IN  ExceptionClear(t4)

\* Step 6, class_243: three lookups, then one clear.
DiscoverVec3dFields(t, host, keeps) ==
    LET t1 == HostCall(t, ~host.x, keeps)
        t2 == HostCall(t1, ~host.y, keeps)
        t3 == HostCall(t2, ~host.z, keeps)
    IN  ExceptionClear(t3)

\* The fields the host's Camera and Vec3d classes have.
HostFields ==
    [posF : BOOLEAN, pitchF : BOOLEAN, yawF : BOOLEAN,
     x : BOOLEAN, y : BOOLEAN, z : BOOLEAN]

\* ReadCameraState with the camera's yaw and pitch fields at 0: the
\* player's getYaw and getPitch are called one after the other, then one
\* clear; the Lunar field lookups are checked one by one.
ReadCameraState(t, in, keeps) ==
    LET t1 == GuardedCall(t, FALSE, keeps)
        t2 == HostCall(t1, FALSE, keeps)
        t3 == ExceptionClear(HostCall(HostCall(t2, FALSE, keeps),
                                      FALSE, keeps))
        t4 == HostCall(t3, FALSE, keeps)
        t5 == HostCall(t4, in.yawErr, keeps)
        t6 == ExceptionClear(HostCall(t5, in.pitchErr, keeps))
        t7 == HostCall(t6, FALSE, keeps)
        t8 == GuardedCall(t7, ~in.lunar, keeps)
    IN  GuardedCall(t8, ~in.lunar, keeps)

CamInputs == [yawErr : BOOLEAN, pitchErr : BOOLEAN, lunar : BOOLEAN]

\* The entry of entity i: a call that raised leaves its default.
PlayerData121(i, f) ==
    [id |-> i,
     x |-> IF f = "pos" THEN 0 ELSE i,
     name |-> IF f = "name" THEN "Player" ELSE "n",
     hp |-> IF f = "hp" THEN DefaultHp ELSE i]

\* The two loops over the entities, one entity after the other (every call
\* of both loops is guarded, so their interleaving does not show): the
\* element, getX/getY/getZ, the name, the health, the armor, the held item.
RECURSIVE ListEntities(_, _, _, _)
ListEntities(t, faults, i, keeps) ==
    IF i > Len(faults) THEN [t |-> t, list |-> {}]
    ELSE LET f == faults[i]
             t1 == GuardedCall(t, f = "elem", keeps)
         IN  IF f = "elem" THEN ListEntities(t1, faults, i + 1, keeps)
             ELSE LET t2 == GuardedCall(t1, f = "pos", keeps)
                      t3 == GuardedCall(GuardedCall(t2, FALSE, keeps),
                                        FALSE, keeps)
                      t4 == GuardedCall(t3, f = "name", keeps)
                      t5 == GuardedCall(t4, f = "hp", keeps)
                      t6 == GuardedCall(GuardedCall(t5, FALSE, keeps),
                                        FALSE, keeps)
                      rest == ListEntities(t6, faults, i + 1, keeps)
                  IN  [t |-> rest.t,
                       list |-> {PlayerData121(i, f)} \cup rest.list]

\* UpdatePlayerListOverlay in a world: world and player are read, then one
\* check; the list; FindClass and GetMethodID for toArray, then one check;
\* toArray; the entities.  localList is published on every way out.
UpdatePlayerListOverlay(t, in, keeps) ==
    LET t1 == HostCall(HostCall(t, FALSE, keeps), FALSE, keeps)
        t2 == IF ExceptionCheck(t1) THEN ExceptionClear(t1) ELSE t1
        t3 == GuardedCall(t2, FALSE, keeps)
        t4 == HostCall(t3, in.arr = "noMethod", keeps)
        t5 == IF in.arr = "noMethod" THEN t4
              ELSE HostCall(t4, FALSE, keeps)
        t6 == IF ExceptionCheck(t5) THEN ExceptionClear(t5) ELSE t5
        t7 == GuardedCall(t6, in.arr = "raised", keeps)
    IN  IF in.arr = "noMethod" THEN [t |-> t6, list |-> {}]
        ELSE IF in.arr = "raised" THEN [t |-> t7, list |-> {}]
        ELSE ListEntities(t7, in.faults, 1, keeps)

\* The world's entities are met only when toArray returned.
ListInputs ==
    {in \in [arr : {"ok", "noMethod", "raised"},
             faults : UNION {[1..n -> Faults] : n \in 0..MaxEnts}] :
        in.arr = "ok" \/ in.faults = <<>>}

NoListInput == [arr |-> "ok", faults |-> <<>>]
NoPoll == [pc |-> "cam", last |-> "none", list |-> NoListInput,
           raised |-> FALSE, before |-> FALSE]

JniIdle ==
    /\ jniExc = [th \in Threads |-> FALSE] /\ jniBad = 0
    /\ g_playerList = {} /\ pollHist = NoPoll

\* MainThread: the class_4184 and class_243 blocks of DiscoverJniMappings.
DiscoverJniFields ==
    /\ build = "bridge_121"
    /\ \E host \in HostFields, keeps \in BOOLEAN :
         LET t0 == [exc |-> jniExc["main"], bad |-> 0]
             t1 == DiscoverVec3dFields(
                       DiscoverCameraFields(t0, host, keeps), host, keeps)
         IN  /\ jniExc' = [jniExc EXCEPT !["main"] = t1.exc]
             /\ jniBad' = t1.bad
    /\ UNCHANGED <<build, cfgVars, projVars, lifeVars, recvVars, entVars,
                   tagVars, ovVars, roleVars, g_playerList, pollHist,
                   gateVars,
                   scanVars,
                   timeVars,
                   trkVars,
                   nearVars,
                   passVars,
                   lockVars,
                   unlVars,
                   cowVars,
                   exitVars,
                   cmdVars,
                   drawVars,
                   wtVars>>

\* ChestScanThreadProc, one iteration in two steps: ReadCameraState ...
ChestScanReadCamera ==
    /\ build = "bridge_121"
    /\ pollHist.pc = "cam"
    /\ \E in \in CamInputs, keeps \in BOOLEAN :
         LET t1 == ReadCameraState([exc |-> jniExc["poll"], bad |-> 0],
                                   in, keeps)
         IN  /\ jniExc' = [jniExc EXCEPT !["poll"] = t1.exc]
             /\ jniBad' = t1.bad
             /\ pollHist' = [pc |-> "list", last |-> "cam",
                             list |-> NoListInput,
                             raised |-> in.yawErr \/ in.pitchErr
                                        \/ ~in.lunar,
                             before |-> pollHist.before \/ pollHist.raised]
    /\ UNCHANGED <<build, cfgVars, projVars, lifeVars, recvVars, entVars,
                   tagVars, ovVars, roleVars, g_playerList,
                   gateVars,
                   scanVars,
                   timeVars,
                   trkVars,
                   nearVars,
                   passVars,
                   lockVars,
                   unlVars,
                   cowVars,
                   exitVars,
                   cmdVars,
                   drawVars,
                   wtVars>>

\* ... then UpdatePlayerListOverlay, then Sleep(50) and the next iteration.
ChestScanUpdateList ==
    /\ build = "bridge_121"
    /\ pollHist.pc = "list"
    /\ \E in \in ListInputs, keeps \in BOOLEAN :
         LET r == UpdatePlayerListOverlay(
                      [exc |-> jniExc["poll"], bad |-> 0], in, keeps)
         IN  /\ jniExc' = [jniExc EXCEPT !["poll"] = r.t.exc]
             /\ jniBad' = r.t.bad
             /\ g_playerList' = r.list
             /\ pollHist' = [pc |-> "cam", last |-> "list", list |-> in,
                             raised |-> in.arr # "ok"
                                 \/ \E i \in DOMAIN in.faults :
                                        in.faults[i] # "none",
                             before |-> pollHist.before \/ pollHist.raised]
    /\ UNCHANGED <<build, cfgVars, projVars, lifeVars, recvVars, entVars,
                   tagVars, ovVars, roleVars,
                   gateVars,
                   scanVars,
                   timeVars,
                   trkVars,
                   nearVars,
                   passVars,
                   lockVars,
                   unlVars,
                   cowVars,
                   exitVars,
                   cmdVars,
                   drawVars,
                   wtVars>>

(***************************************************************************)
(* FEATURES GATED ON THE ACCESSOR CACHE (bridge_121.cpp)                   *)
(*                                                                         *)
(* accCache is the set of resolved handles, g_mcInstance being set.  A     *)
(* run of a feature leaves in gated the handles it passed to the host and  *)
(* what it published.  The host's k-th player stands at x = k and the      *)
(* camera at x = 1.                                                        *)
(***************************************************************************)
Accessors ==
    {"g_worldField_121", "g_playerField_121", "g_worldPlayersListField_121",
     "g_entityPosField_121", "g_getX_121", "g_gameRendererField_121",
     "g_gameRendererCameraField_121", "g_cameraPosF_121", "g_vec3dX_121"}

NoGated == [op |-> "none", used |-> {}, players |-> {},
            camFound |-> FALSE, camX |-> 0]

GateIdle == accCache = {} /\ gated = NoGated

\* An entity's x: Entity.pos and Vec3d.x when both are mapped, else
\* CallDoubleNoArgs(getX), which returns 0.0 for a null method.
EntityX(acc, k) ==
    IF {"g_entityPosField_121", "g_vec3dX_121"} \subseteq acc
    THEN [x |-> k, used |-> {"g_entityPosField_121", "g_vec3dX_121"}]
    ELSE IF "g_getX_121" \in acc
    THEN [x |-> k, used |-> {"g_getX_121"}]
    ELSE [x |-> 0, used |-> {}]

\* UpdatePlayerListOverlay over n players: the guard names the world, the
\* player and the list fields; every entity met is published.
PlayerListPass(acc, n) ==
    IF ~({"g_worldField_121", "g_playerField_121",
          "g_worldPlayersListField_121"} \subseteq acc)
    THEN [used |-> {}, players |-> {}]
    ELSE [used |-> {"g_worldField_121", "g_playerField_121",
                    "g_worldPlayersListField_121"}
                   \cup UNION {EntityX(acc, k).used : k \in 1..n},
          players |-> {[id |-> k, x |-> EntityX(acc, k).x] : k \in 1..n}]

\* ReadCameraState: the guard names the two GameRenderer fields; the
\* position comes from Camera.pos, else from the player's Entity.pos;
\* camFound is set once the Vec3d object is there, each coordinate is
\* read if its field is mapped.
CameraPass(acc) ==
    IF ~({"g_gameRendererField_121", "g_gameRendererCameraField_121"}
            \subseteq acc)
    THEN [used |-> {}, camFound |-> FALSE, camX |-> 0]
    ELSE LET primary == "g_cameraPosF_121" \in acc
             fallback == /\ ~primary
                         /\ {"g_playerField_121", "g_entityPosField_121"}
                                \subseteq acc
             found == primary \/ fallback
             readX == found /\ "g_vec3dX_121" \in acc
         IN  [used |-> {"g_gameRendererField_121",
                        "g_gameRendererCameraField_121"}
                       \cup (IF primary THEN {"g_cameraPosF_121"} ELSE {})
                       \cup (IF fallback
                             THEN {"g_playerField_121",
                                   "g_entityPosField_121"} ELSE {})
                       \cup (IF readX THEN {"g_vec3dX_121"} ELSE {}),
              camFound |-> found,
              camX |-> IF readX THEN 1 ELSE 0]

\* Discovery and EnsureEntityMethods store the handles the host's classes
\* offer; a handle that is set is not looked up again.
ResolveAccessors ==
    /\ build = "bridge_121"
    /\ \E found \in SUBSET Accessors :
         /\ ~(found \subseteq accCache)
         /\ accCache' = accCache \cup found
    /\ UNCHANGED <<build, cfgVars, projVars, lifeVars, recvVars, entVars,
                   tagVars, ovVars, roleVars, jniVars, gated,
                   scanVars,
                   timeVars,
                   trkVars,
                   nearVars,
                   passVars,
                   lockVars,
                   unlVars,
                   cowVars,
                   exitVars,
                   cmdVars,
                   drawVars,
                   wtVars>>

ChestScanPlayers ==
    /\ build = "bridge_121"
    /\ \E n \in 0..MaxEnts :
         LET r == PlayerListPass(accCache, n)
         IN  gated' = [op |-> "players", used |-> r.used,
                       players |-> r.players,
                       camFound |-> gated.camFound, camX |-> gated.camX]
    /\ UNCHANGED <<build, cfgVars, projVars, lifeVars, recvVars, entVars,
                   tagVars, ovVars, roleVars, jniVars, accCache,
                   scanVars,
                   timeVars,
                   trkVars,
                   nearVars,
                   passVars,
                   lockVars,
                   unlVars,
                   cowVars,
                   exitVars,
                   cmdVars,
                   drawVars,
                   wtVars>>

ChestScanCamera ==
    /\ build = "bridge_121"
    /\ LET r == CameraPass(accCache)
       IN  gated' = [op |-> "camera", used |-> r.used,
                     players |-> gated.players,
                     camFound |-> r.camFound, camX |-> r.camX]
    /\ UNCHANGED <<build, cfgVars, projVars, lifeVars, recvVars, entVars,
                   tagVars, ovVars, roleVars, jniVars, accCache,
                   scanVars,
                   timeVars,
                   trkVars,
                   nearVars,
                   passVars,
                   lockVars,
                   unlVars,
                   cowVars,
                   exitVars,
                   cmdVars,
                   drawVars,
                   wtVars>>

(***************************************************************************)
(* DISCOVERY: the fallback scan for the root class                         *)
(*                                                                         *)
(* A loaded class is its namespace ("java" stands for the skipped          *)
(* prefixes), whether it has a static field of its own type, and how many  *)
(* non-static fields it declares.  The scan runs when the known name was   *)
(* not found.                                                              *)
(***************************************************************************)
MaxClasses == 3
Threshold == 15
Namespaces == {"net.minecraft", "other", "java"}
LoadedClasses ==
    [ns : Namespaces, hasSelf : BOOLEAN,
     objCount : {Threshold, Threshold + 1, Threshold + 2}]
ClassLists == UNION {[1..n -> LoadedClasses] : n \in 0..MaxClasses}

Skipped(c) == c.ns = "java"

QualifiesAtThreshold(c) == c.hasSelf /\ c.objCount >= Threshold
\* if (hasSelf && objCount > 15)
Qualifies(c) == c.hasSelf /\ c.objCount > Threshold

\* bridge_121.cpp: the first candidate, a net.minecraft one over one that
\* is not, one with more fields over one that is not net.minecraft.
Better(classes, best, c) ==
    IF best = 0 THEN TRUE
    ELSE IF c.ns = "net.minecraft" /\ classes[best].ns # "net.minecraft"
    THEN TRUE
    ELSE /\ c.objCount > classes[best].objCount
         /\ classes[best].ns # "net.minecraft"

RECURSIVE ScanBest121(_, _, _)
ScanBest121(classes, i, best) ==
    IF i > Len(classes) THEN best
    ELSE IF Skipped(classes[i]) \/ ~Qualifies(classes[i])
    THEN ScanBest121(classes, i + 1, best)
    ELSE ScanBest121(classes, i + 1,
                     IF Better(classes, best, classes[i]) THEN i ELSE best)

\* bridge.cpp: the first candidate ends the scan.
RECURSIVE ScanFirst189(_, _)
ScanFirst189(classes, i) ==
    IF i > Len(classes) THEN 0
    ELSE IF ~Skipped(classes[i]) /\ Qualifies(classes[i]) THEN i
    ELSE ScanFirst189(classes, i + 1)

ScanIdle == scanIn = <<>> /\ scanOut = [done |-> FALSE, sel |-> 0]
ScanInit == scanIn \in ClassLists /\ scanOut = [done |-> FALSE, sel |-> 0]

DiscoverJniMappingsScan ==
    /\ build = "bridge_121" /\ ~scanOut.done
    /\ scanOut' = [done |-> TRUE, sel |-> ScanBest121(scanIn, 1, 0)]
    /\ UNCHANGED <<build, cfgVars, projVars, lifeVars, recvVars, entVars,
                   tagVars, ovVars, roleVars, jniVars, gateVars, scanIn,
                   timeVars,
                   trkVars,
                   nearVars,
                   passVars,
                   lockVars,
                   unlVars,
                   cowVars,
                   exitVars,
                   cmdVars,
                   drawVars,
                   wtVars>>

DiscoverMappingsScan ==
    /\ build = "bridge" /\ ~scanOut.done
    /\ scanOut' = [done |-> TRUE, sel |-> ScanFirst189(scanIn, 1)]
    /\ UNCHANGED <<build, cfgVars, projVars, lifeVars, recvVars, entVars,
                   tagVars, ovVars, roleVars, jniVars, gateVars, scanIn,
                   timeVars,
                   trkVars,
                   nearVars,
                   passVars,
                   lockVars,
                   unlVars,
                   cowVars,
                   exitVars,
                   cmdVars,
                   drawVars,
                   wtVars>>

(***************************************************************************)
(* THE POLLING THREAD'S CLOCK (bridge_121.cpp)                             *)
(*                                                                         *)
(* A DWORD tick value v is written relative to the wrap of the 32-bit      *)
(* counter: v >= 0 is the value v, v < 0 is the value 2^32 + v.  Time in   *)
(* the model stays within a few seconds of the wrap (or of the boot), so   *)
(* v + d is the wrapping sum, and the difference and the comparison of     *)
(* two DWORDs are the ones below.  scanHist keeps the true elapsed time.   *)
(***************************************************************************)
MaxSleeps == 3
ThrottleMs == 100
TransitionMs == 5000
StartTicks == {-1000, 300}
Delays == {50, 100, 5000}
Screens == {"", "chat"}
\* "no such scan yet", where a true elapsed time is expected
Never == 0 - 1

\* a < b on DWORDs
DwordLess(a, b) == IF (a < 0) = (b < 0) THEN a < b ELSE b < 0

NotThrottled(now, last) == FALSE
\* now - last < 100 on DWORDs (the difference wraps to a large value when
\* last is the initial 0 and now is before the wrap)
Throttled(now, last) == now >= last /\ now - last < ThrottleMs

\* now < g_worldTransitionEndMs
InTransition(now, end) == DwordLess(now, end)

NoScanHist ==
    [sleeps |-> 0, op |-> "none", sinceList |-> Never, sinceChest |-> Never,
     gap |-> Never, winLeft |-> 0, lookups |-> 0, cleared |-> FALSE]

TimeIdle ==
    /\ tick = 0 /\ g_lastPlayerListUpdateMs = 0 /\ g_lastChestScanMs = 0
    /\ g_worldTransitionEndMs = 0 /\ g_lastLoggedScreen = ""
    /\ g_chunkBlockEntitiesMapField_121 = 0 /\ scanHist = NoScanHist
TimeInit ==
    /\ tick \in StartTicks /\ g_lastPlayerListUpdateMs = 0
    /\ g_lastChestScanMs = 0 /\ g_worldTransitionEndMs = 0
    /\ g_lastLoggedScreen = "" /\ g_chunkBlockEntitiesMapField_121 = 0
    /\ scanHist = NoScanHist

Later(since, d) == IF since = Never THEN Never ELSE since + d

\* Sleep(50) and whatever else lets time pass.
PollSleep ==
    /\ build = "bridge_121"
    /\ scanHist.sleeps < MaxSleeps
    /\ \E d \in Delays :
         /\ tick' = tick + d
         /\ scanHist' = [scanHist EXCEPT
                !.sleeps = @ + 1, !.op = "sleep",
                !.sinceList = Later(@, d), !.sinceChest = Later(@, d),
                !.winLeft = IF @ > d THEN @ - d ELSE 0]
    /\ UNCHANGED <<build, cfgVars, projVars, lifeVars, recvVars, entVars,
                   tagVars, ovVars, roleVars, jniVars, gateVars, scanVars,
                   g_lastPlayerListUpdateMs, g_lastChestScanMs,
                   g_worldTransitionEndMs, g_lastLoggedScreen,
                   g_chunkBlockEntitiesMapField_121,
                   trkVars,
                   nearVars,
                   passVars,
                   lockVars,
                   unlVars,
                   cowVars,
                   exitVars,
                   cmdVars,
                   drawVars,
                   wtVars>>

\* UpdateJniState: a screen chain other than the last one logged opens the
\* transition window and forgets the blockEntities field.
UpdateJniStateScreen ==
    /\ build = "bridge_121"
    /\ \E screenName \in Screens :
         IF screenName # g_lastLoggedScreen
         THEN /\ g_lastLoggedScreen' = screenName
              /\ g_worldTransitionEndMs' = tick + TransitionMs
              /\ g_chunkBlockEntitiesMapField_121' = 0
              /\ scanHist' = [scanHist EXCEPT
                     !.op = "screen", !.winLeft = TransitionMs,
                     !.cleared = g_chunkBlockEntitiesMapField_121 # 0]
         ELSE UNCHANGED <<g_lastLoggedScreen, g_worldTransitionEndMs,
                         g_chunkBlockEntitiesMapField_121, scanHist>>
    /\ UNCHANGED <<build, cfgVars, projVars, lifeVars, recvVars, entVars,
                   tagVars, ovVars, roleVars, jniVars, gateVars, scanVars,
                   tick, g_lastPlayerListUpdateMs, g_lastChestScanMs,
                   trkVars,
                   nearVars,
                   passVars,
                   lockVars,
                   unlVars,
                   cowVars,
                   exitVars,
                   cmdVars,
                   drawVars,
                   wtVars>>

\* The head of UpdatePlayerListOverlay.
UpdatePlayerListThrottle ==
    /\ build = "bridge_121"
    /\ IF Throttled(tick, g_lastPlayerListUpdateMs)
       THEN UNCHANGED <<g_lastPlayerListUpdateMs, scanHist>>
       ELSE /\ g_lastPlayerListUpdateMs' = tick
            /\ scanHist' = [scanHist EXCEPT
                   !.op = "list", !.gap = scanHist.sinceList,
                   !.sinceList = 0]
    /\ UNCHANGED <<build, cfgVars, projVars, lifeVars, recvVars, entVars,
                   tagVars, ovVars, roleVars, jniVars, gateVars, scanVars,
                   tick, g_lastChestScanMs, g_worldTransitionEndMs,
                   g_lastLoggedScreen, g_chunkBlockEntitiesMapField_121,
                   trkVars,
                   nearVars,
                   passVars,
                   lockVars,
                   unlVars,
                   cowVars,
                   exitVars,
                   cmdVars,
                   drawVars,
                   wtVars>>

\* UpdateChestList: the throttle, the transition guard, then the chunks;
\* the guard is tested again before every getChunk, and EnsureChunkBEMap
\* looks the blockEntities field up while it is null.
UpdateChestList ==
    /\ build = "bridge_121"
    /\ IF Throttled(tick, g_lastChestScanMs)
       THEN UNCHANGED <<g_lastChestScanMs,
                       g_chunkBlockEntitiesMapField_121, scanHist>>
       ELSE IF InTransition(tick, g_worldTransitionEndMs)
       THEN UNCHANGED <<g_lastChestScanMs,
                       g_chunkBlockEntitiesMapField_121, scanHist>>
       ELSE /\ g_lastChestScanMs' = tick
            /\ \E chunks \in 0..1, fid \in 0..MaxHandle :
                 LET looked == IF InTransition(tick, g_worldTransitionEndMs)
                               THEN 0 ELSE chunks
                 IN  /\ g_chunkBlockEntitiesMapField_121' =
                            IF looked > 0
                               /\ g_chunkBlockEntitiesMapField_121 = 0
                            THEN fid
                            ELSE g_chunkBlockEntitiesMapField_121
                     /\ scanHist' = [scanHist EXCEPT
                            !.op = "chest", !.gap = scanHist.sinceChest,
                            !.sinceChest = 0, !.lookups = looked]
    /\ UNCHANGED <<build, cfgVars, projVars, lifeVars, recvVars, entVars,
                   tagVars, ovVars, roleVars, jniVars, gateVars, scanVars,
                   tick, g_lastPlayerListUpdateMs, g_worldTransitionEndMs,
                   g_lastLoggedScreen,
                   trkVars,
                   nearVars,
                   passVars,
                   lockVars,
                   unlVars,
                   cowVars,
                   exitVars,
                   cmdVars,
                   drawVars,
                   wtVars>>

(***************************************************************************)
(* OVERLAY ENTRIES: the life of the smoothing entry kept for an entity key  *)
(*                                                                         *)
(* bridge_121.cpp keeps a vector of entries stamped with GetTickCount();    *)
(* bridge.cpp keeps a map of entries stamped with a frame counter.  The     *)
(* positions the entries smooth are modelled in OVERLAY SMOOTHING above.    *)
(* Times are milliseconds since the first frame: the elapsed time the code  *)
(* takes is a DWORD difference, which is the true one for any gap below     *)
(* 2^32 ms.  The host renders at a steady rate.                             *)
(***************************************************************************)
MaxTagFrames == 47      \* frames hooked in one run
TimeoutMs == 1200       \* bridge_121.cpp: age in ms beyond which an entry goes
StaleFrames == 45       \* bridge.cpp: age in frames beyond which an entry goes
FrameRates == {16, 50}  \* ms per frame: about 60 and 20 frames a second
Keys == {"a", "b"}

NoPoint == [live |-> FALSE, lastSeenMs |-> 0]
NoTag == [init |-> FALSE, lastFrame |-> 0, seenMs |-> 0]
NoTrkHist == [ran |-> FALSE, proj |-> {}]

TrkIdle ==
    /\ trkNow = 0 /\ frameMs = 0 /\ trkFrames = 0
    /\ s_nametagSmooth = [k \in Keys |-> NoPoint]
    /\ g_tagSmoothing = [k \in Keys |-> NoTag]
    /\ g_tagFrameCounter = 0 /\ trkHist = NoTrkHist
TrkInit ==
    /\ trkNow = 0 /\ frameMs \in FrameRates /\ trkFrames = 0
    /\ s_nametagSmooth = [k \in Keys |-> NoPoint]
    /\ g_tagSmoothing = [k \in Keys |-> NoTag]
    /\ g_tagFrameCounter = 0 /\ trkHist = NoTrkHist

\* bridge_121.cpp: the remove_if predicate of the eviction.
Stale121(now, p) == now - p.lastSeenMs > TimeoutMs

\* bridge.cpp: the test of the cleanup loop.
Stale189(frame, t) == frame - t.lastFrame > StaleFrames

\* bridge_121.cpp hwglSwapBuffers, one frame.  inWorld: the menu is hidden and
\* the player is in a world; proj: the keys of the snapshot whose head
\* projects in this frame (none unless nametags are on, the camera was found
\* and the cap is not reached).
SwapBuffersTrack ==
    /\ build = "bridge_121" /\ trkFrames < MaxTagFrames
    /\ trkFrames' = trkFrames + 1
    /\ trkNow' = trkNow + frameMs
    /\ \E inWorld \in BOOLEAN, proj \in SUBSET Keys :
         /\ ~inWorld => proj = {}
         /\ s_nametagSmooth' =
                IF ~inWorld THEN s_nametagSmooth
                ELSE [k \in Keys |->
                        IF k \in proj
                        THEN [live |-> TRUE, lastSeenMs |-> trkNow']
                        ELSE IF s_nametagSmooth[k].live
                                /\ Stale121(trkNow', s_nametagSmooth[k])
                             THEN NoPoint
                             ELSE s_nametagSmooth[k]]
         /\ trkHist' = [ran |-> inWorld, proj |-> proj]
    /\ UNCHANGED <<build, cfgVars, projVars, lifeVars, recvVars, entVars, tagVars,
                   ovVars, roleVars, jniVars, gateVars, scanVars, timeVars,
                   frameMs, g_tagSmoothing, g_tagFrameCounter,
                   nearVars,
                   passVars,
                   lockVars,
                   unlVars,
                   cowVars,
                   exitVars,
                   cmdVars,
                   drawVars,
                   wtVars>>

\* bridge.cpp RenderNametags, one frame with nametags on and the mappings
\* resolved (without them the call returns before it touches anything).
\* path: "noWorld" returns after the counter (no JNI frame, no world, no
\* player, no list), "run" goes through the entities; proj: the keys
\* WorldToScreen accepts; shown: those of them within 48 blocks, within
\* 64 px of the window and with a name to draw.
RenderNametagsTrack ==
    /\ build = "bridge" /\ trkFrames < MaxTagFrames
    /\ trkFrames' = trkFrames + 1
    /\ trkNow' = trkNow + frameMs
    /\ \E path \in {"noWorld", "run"}, proj \in SUBSET Keys :
       \E shown \in SUBSET proj :
         /\ path # "run" => proj = {}
         /\ g_tagFrameCounter' = g_tagFrameCounter + 1
         /\ g_tagSmoothing' =
                IF path # "run" THEN g_tagSmoothing
                ELSE [k \in Keys |->
                        IF k \in shown
                        THEN [init |-> TRUE, lastFrame |-> g_tagFrameCounter',
                              seenMs |-> trkNow']
                        ELSE IF g_tagSmoothing[k].init
                                /\ Stale189(g_tagFrameCounter',
                                            g_tagSmoothing[k])
                             THEN NoTag
                             ELSE g_tagSmoothing[k]]
         /\ trkHist' = [ran |-> path = "run", proj |-> proj]
    /\ UNCHANGED <<build, cfgVars, projVars, lifeVars, recvVars, entVars, tagVars,
                   ovVars, roleVars, jniVars, gateVars, scanVars, timeVars,
                   frameMs, s_nametagSmooth,
                   nearVars,
                   passVars,
                   lockVars,
                   unlVars,
                   cowVars,
                   exitVars,
                   cmdVars,
                   drawVars,
                   wtVars>>

(***************************************************************************)
(* ENTITY-LIST PASS: which entities get the expensive lookups               *)
(*                                                                         *)
(* bridge_121.cpp UpdatePlayerListOverlay past its throttle, with the       *)
(* world, the player and the list at hand.  An element of the host's array  *)
(* is the player itself (or null) and skipped, or an entity at a distance   *)
(* from the camera.                                                        *)
(***************************************************************************)
MaxList == 3          \* elements of the host's player array
MaxDist == 2          \* distances run over 0..MaxDist
ScanCap == 128        \* elements of the array looked at
TagCap == 20          \* most tags the configuration may ask for
AimCount == 12        \* entities the aim assist wants

Elems == [self : {FALSE}, dist : 0..MaxDist] \cup {[self |-> TRUE, dist |-> 0]}
Arrays == UNION {[1..n -> Elems] : n \in 0..MaxList}
NearInputs ==
    [nametags : BOOLEAN, nametagMaxCount : {0, 1, 2, 25}, aimAssist : BOOLEAN,
     arr : Arrays]

\* maxPlayersToProcess, from the configuration snapshot.
MaxPlayersToProcess(in) ==
    LET tags == IF in.nametags
                THEN Max(1, Max(1, Min(TagCap, in.nametagMaxCount)))
                ELSE 1
    IN  IF in.aimAssist THEN Max(tags, AimCount) ELSE tags

\* The first loop: the indices of the elements kept in lwList, in array order.
RECURSIVE Lightweight(_, _)
Lightweight(arr, i) ==
    IF i > Len(arr) \/ i > ScanCap THEN <<>>
    ELSE IF arr[i].self THEN Lightweight(arr, i + 1)
         ELSE <<i>> \o Lightweight(arr, i + 1)

\* The comparator handed to std::sort.
DistMore(arr, a, b) == arr[a].dist > arr[b].dist
DistLess(arr, a, b) == arr[a].dist < arr[b].dist

\* The orders std::sort may leave lw in: a rearrangement in which no element
\* comes before one that compares less than it (equal ones in any order).
AnyOrders(arr, lw) ==
    {s \in [1..Len(lw) -> {lw[i] : i \in 1..Len(lw)}] :
        \A i, j \in 1..Len(lw) : i # j => s[i] # s[j]}
SortedOrders(arr, lw) ==
    {s \in [1..Len(lw) -> {lw[i] : i \in 1..Len(lw)}] :
        /\ \A i, j \in 1..Len(lw) : i # j => s[i] # s[j]
        /\ \A i, j \in 1..Len(lw) : i < j => ~DistLess(arr, s[j], s[i])}

\* The second loop: the heavy lookups run while processedCount is below max.
Processed(sorted, max) == SubSeq(sorted, 1, Min(Len(sorted), max))

NoNearIn ==
    [nametags |-> FALSE, nametagMaxCount |-> 0, aimAssist |-> FALSE,
     arr |-> <<>>]
NoNearOut == [done |-> FALSE, max |-> 0, lwList |-> <<>>, localList |-> <<>>]
NearIdle == nearIn = NoNearIn /\ nearOut = NoNearOut

\* One pass over one array under one configuration.
UpdatePlayerListNearest ==
    /\ build = "bridge_121" /\ ~nearOut.done
    /\ \E in \in NearInputs :
       \E sorted \in SortedOrders(in.arr, Lightweight(in.arr, 1)) :
         /\ nearIn' = in
         /\ nearOut' = [done |-> TRUE, max |-> MaxPlayersToProcess(in),
                        lwList |-> sorted,
                        localList |->
                            Processed(sorted, MaxPlayersToProcess(in))]
    /\ UNCHANGED <<build, cfgVars, projVars, lifeVars, recvVars, entVars, tagVars,
                   ovVars, roleVars, jniVars, gateVars, scanVars, timeVars,
                   trkVars,
                   passVars,
                   lockVars,
                   unlVars,
                   cowVars,
                   exitVars,
                   cmdVars,
                   drawVars,
                   wtVars>>

(***************************************************************************)
(* DISCOVERY: a pass once it holds the root instance                       *)
(*                                                                         *)
(* What follows the singleton's read in DiscoverJniMappings and in          *)
(* DiscoverMappings.  A role is attempted when its lookups are issued, and  *)
(* resolved when the host offers what they ask for.  host is the set of     *)
(* roles the host offers.                                                  *)
(***************************************************************************)
Roles121 ==
    {"screen", "setScreen", "chat", "renderSystem", "matrix4f",
     "gameRenderer", "rendererCamera", "camera", "vec3d"}
Roles189 ==
    {"player", "screen", "playerPos", "chat", "displayGuiScreen", "world",
     "playerEntities", "renderManager", "viewerPos", "list"}
PassRoles == IF build = "bridge_121" THEN Roles121 ELSE Roles189

\* bridge_121.cpp steps 3 to 6.  Steps 4 and 5 run when step 3 named the
\* screen's type.  The camera field of the game renderer is looked up
\* without a check: when it is missing, the load of the camera class is
\* issued with the exception pending, and LoadClassWithLoader returns null
\* if the host kept it (keeps).
DiscoverJniMappingsTail(host, keeps) ==
    LET screenType == "screen" \in host
        gr == "gameRenderer" \in host
        pending == gr /\ "rendererCamera" \notin host
        camCls == ~(pending /\ keeps)
        attempted ==
            {"screen", "renderSystem", "matrix4f", "gameRenderer", "vec3d"}
            \cup (IF screenType THEN {"setScreen", "chat"} ELSE {})
            \cup (IF gr THEN {"rendererCamera"} ELSE {})
            \cup (IF camCls THEN {"camera"} ELSE {})
    IN  [done |-> TRUE, attempted |-> attempted,
         resolved |-> attempted \cap host, result |-> TRUE]

\* bridge.cpp past the singleton.  The player's position fields are looked
\* for on the player's type, the entity list on the world object (inWorld:
\* there is one), the viewer position on the render manager; the pass
\* returns g_mapped, which is whether the player field was found.
DiscoverMappingsTail(host, inWorld) ==
    LET attempted ==
            {"player", "screen", "chat", "displayGuiScreen", "world",
             "renderManager", "list"}
            \cup (IF "player" \in host THEN {"playerPos"} ELSE {})
            \cup (IF "world" \in host /\ inWorld
                  THEN {"playerEntities"} ELSE {})
            \cup (IF "renderManager" \in host THEN {"viewerPos"} ELSE {})
    IN  [done |-> TRUE, attempted |-> attempted,
         resolved |-> attempted \cap host, result |-> "player" \in host]

NoPassIn == [host |-> {}, flag |-> FALSE]
NoPassOut == [done |-> FALSE, attempted |-> {}, resolved |-> {},
              result |-> FALSE]
PassIdle == passIn = NoPassIn /\ passOut = NoPassOut

DiscoverJniMappingsPass ==
    /\ build = "bridge_121" /\ ~passOut.done
    /\ \E host \in SUBSET Roles121, keeps \in BOOLEAN :
         /\ passIn' = [host |-> host, flag |-> keeps]
         /\ passOut' = DiscoverJniMappingsTail(host, keeps)
    /\ UNCHANGED <<build, cfgVars, projVars, lifeVars, recvVars, entVars, tagVars,
                   ovVars, roleVars, jniVars, gateVars, scanVars, timeVars,
                   trkVars, nearVars,
                   lockVars,
                   unlVars,
                   cowVars,
                   exitVars,
                   cmdVars,
                   drawVars,
                   wtVars>>

DiscoverMappingsPass ==
    /\ build = "bridge" /\ ~passOut.done
    /\ \E host \in SUBSET Roles189, inWorld \in BOOLEAN :
         /\ passIn' = [host |-> host, flag |-> inWorld]
         /\ passOut' = DiscoverMappingsTail(host, inWorld)
    /\ UNCHANGED <<build, cfgVars, projVars, lifeVars, recvVars, entVars, tagVars,
                   ovVars, roleVars, jniVars, gateVars, scanVars, timeVars,
                   trkVars, nearVars,
                   lockVars,
                   unlVars,
                   cowVars,
                   exitVars,
                   cmdVars,
                   drawVars,
                   wtVars>>

(***************************************************************************)
(* LOCKS: the mutexes the render callback takes, and who else holds them    *)
(*                                                                         *)
(* A site is a place where a thread other than the render thread takes a    *)
(* mutex, with what it does before it lets go: "copy" (reads or assigns     *)
(* already-built data), "swap" (swaps or clears a vector), "hostCall" (JNI  *)
(* calls into the host, or a socket send).                                 *)
(***************************************************************************)
\* bridge_121.cpp: ChestScanThreadProc (poll) and MainThread (net).
LockSites121 ==
    {[by |-> "poll", m |-> "g_configMutex", work |-> "copy"],
     [by |-> "poll", m |-> "g_playerListMutex", work |-> "swap"],
     [by |-> "poll", m |-> "g_chestListMutex", work |-> "swap"],
     [by |-> "poll", m |-> "g_bgCamMutex", work |-> "copy"],
     [by |-> "poll", m |-> "g_jniStateMtx", work |-> "copy"],
     [by |-> "net", m |-> "g_configMutex", work |-> "copy"],
     [by |-> "net", m |-> "g_jniStateMtx", work |-> "copy"],
     [by |-> "net", m |-> "g_playerListMutex", work |-> "copy"],
     [by |-> "net", m |-> "g_bgCamMutex", work |-> "copy"],
     [by |-> "net", m |-> "g_cmdMutex", work |-> "swap"]}

\* bridge.cpp: ServerLoop (net) is the only other thread.
LockSites189 ==
    {[by |-> "net", m |-> "g_configMutex", work |-> "copy"],
     [by |-> "net", m |-> "g_jniMutex", work |-> "hostCall"],
     [by |-> "net", m |-> "g_stateMutex", work |-> "copy"],
     [by |-> "net", m |-> "g_jsonMutex", work |-> "copy"],
     [by |-> "net", m |-> "g_socketMutex", work |-> "hostCall"],
     [by |-> "net", m |-> "g_cmdMutex", work |-> "copy"]}

LockSites == IF build = "bridge_121" THEN LockSites121 ELSE LockSites189

\* The mutexes the render callback takes in one frame.
RenderLocks ==
    IF build = "bridge_121"
    THEN {"g_configMutex", "g_jniStateMtx", "g_bgCamMutex",
          "g_playerListMutex", "g_chestListMutex", "g_cmdMutex"}
    ELSE {"g_jniMutex", "g_configMutex", "g_jsonMutex", "g_cmdMutex"}

Mutexes ==
    {"g_configMutex", "g_jniStateMtx", "g_bgCamMutex", "g_playerListMutex",
     "g_chestListMutex", "g_cmdMutex", "g_jniMutex", "g_stateMutex",
     "g_jsonMutex", "g_socketMutex"}

LockIdle ==
    /\ mtxHolder = [m \in Mutexes |-> "free"]
    /\ mtxWork = [m \in Mutexes |-> "none"]
    /\ renderAt = "none"

\* LockGuard's constructor at one of the sites: the thread holds nothing
\* else, and enters when the mutex is free.
OtherThreadLock ==
    /\ \E s \in LockSites :
         /\ mtxHolder[s.m] = "free"
         /\ \A m \in Mutexes : mtxHolder[m] # s.by
         /\ mtxHolder' = [mtxHolder EXCEPT ![s.m] = s.by]
         /\ mtxWork' = [mtxWork EXCEPT ![s.m] = s.work]
    /\ UNCHANGED <<build, cfgVars, projVars, lifeVars, recvVars, entVars, tagVars,
                   ovVars, roleVars, jniVars, gateVars, scanVars, timeVars,
                   trkVars, nearVars, passVars, renderAt,
                   unlVars,
                   cowVars,
                   exitVars,
                   cmdVars,
                   drawVars,
                   wtVars>>

\* LockGuard's destructor, on either thread.
ThreadUnlock ==
    /\ \E m \in Mutexes :
         /\ mtxHolder[m] # "free"
         /\ mtxHolder' = [mtxHolder EXCEPT ![m] = "free"]
         /\ mtxWork' = [mtxWork EXCEPT ![m] = "none"]
    /\ UNCHANGED <<build, cfgVars, projVars, lifeVars, recvVars, entVars, tagVars,
                   ovVars, roleVars, jniVars, gateVars, scanVars, timeVars,
                   trkVars, nearVars, passVars, renderAt,
                   unlVars,
                   cowVars,
                   exitVars,
                   cmdVars,
                   drawVars,
                   wtVars>>

\* The render callback reaches a LockGuard: it stands at the mutex.
RenderReachLock ==
    /\ renderAt = "none"
    /\ \E m \in RenderLocks : mtxHolder[m] # "render" /\ renderAt' = m
    /\ UNCHANGED <<build, cfgVars, projVars, lifeVars, recvVars, entVars, tagVars,
                   ovVars, roleVars, jniVars, gateVars, scanVars, timeVars,
                   trkVars, nearVars, passVars, mtxHolder, mtxWork,
                   unlVars,
                   cowVars,
                   exitVars,
                   cmdVars,
                   drawVars,
                   wtVars>>

\* EnterCriticalSection returns to the render callback once the mutex is
\* free.
RenderEnterLock ==
    /\ renderAt # "none" /\ mtxHolder[renderAt] = "free"
    /\ mtxHolder' = [mtxHolder EXCEPT ![renderAt] = "render"]
    /\ mtxWork' = [mtxWork EXCEPT ![renderAt] = "copy"]
    /\ renderAt' = "none"
    /\ UNCHANGED <<build, cfgVars, projVars, lifeVars, recvVars, entVars, tagVars,
                   ovVars, roleVars, jniVars, gateVars, scanVars, timeVars,
                   trkVars, nearVars, passVars,
                   unlVars,
                   cowVars,
                   exitVars,
                   cmdVars,
                   drawVars,
                   wtVars>>

(***************************************************************************)
(* UNLOAD (bridge.cpp): the invocations in flight when the helper unloads   *)
(*                                                                         *)
(* Time advances in steps of StepMs.  An invocation of the render callback  *)
(* returns within MaxFrameMs and one of the window procedure within         *)
(* MaxWndMs: time does not pass beyond that while it is inside.  The        *)
(* helper thread sleeps SleepMs, then unloads the module.                   *)
(***************************************************************************)
StepMs == 10
SleepMs == 100
MaxFrameMs == 20
MaxWndMs == 10
NotIn == 0 - 1

UnlIdle ==
    /\ inFrame = NotIn /\ inWndProc = NotIn /\ helperSlept = NotIn
    /\ dllMapped = FALSE /\ wndHooked = FALSE
UnlInit ==
    /\ inFrame = NotIn /\ inWndProc = NotIn /\ helperSlept = NotIn
    /\ dllMapped = TRUE /\ wndHooked \in BOOLEAN

\* The game presents a frame: the patched import-table entry leads into
\* HookedSwapBuffers, which subclasses the window when it is not hooked.
SwapBuffersEnter ==
    /\ build = "bridge" /\ dllMapped /\ inFrame = NotIn
    /\ inFrame' = 0
    /\ wndHooked' = TRUE
    /\ UNCHANGED <<build, cfgVars, projVars, lifeVars, recvVars, entVars, tagVars,
                   ovVars, roleVars, jniVars, gateVars, scanVars, timeVars,
                   trkVars, nearVars, passVars, lockVars,
                   inWndProc, helperSlept, dllMapped,
                   cowVars,
                   exitVars,
                   cmdVars,
                   drawVars,
                   wtVars>>

\* g_origSwapBuffers has returned and HookedSwapBuffers returns.
SwapBuffersLeave ==
    /\ build = "bridge" /\ dllMapped /\ inFrame # NotIn
    /\ inFrame' = NotIn
    /\ UNCHANGED <<build, cfgVars, projVars, lifeVars, recvVars, entVars, tagVars,
                   ovVars, roleVars, jniVars, gateVars, scanVars, timeVars,
                   trkVars, nearVars, passVars, lockVars,
                   inWndProc, helperSlept, dllMapped, wndHooked,
                   cowVars,
                   exitVars,
                   cmdVars,
                   drawVars,
                   wtVars>>

\* A message is dispatched to the window while it points at HookedWndProc.
WndProcEnter ==
    /\ build = "bridge" /\ dllMapped /\ wndHooked /\ inWndProc = NotIn
    /\ inWndProc' = 0
    /\ UNCHANGED <<build, cfgVars, projVars, lifeVars, recvVars, entVars, tagVars,
                   ovVars, roleVars, jniVars, gateVars, scanVars, timeVars,
                   trkVars, nearVars, passVars, lockVars,
                   inFrame, helperSlept, dllMapped, wndHooked,
                   cowVars,
                   exitVars,
                   cmdVars,
                   drawVars,
                   wtVars>>

WndProcLeave ==
    /\ build = "bridge" /\ dllMapped /\ inWndProc # NotIn
    /\ inWndProc' = NotIn
    /\ UNCHANGED <<build, cfgVars, projVars, lifeVars, recvVars, entVars, tagVars,
                   ovVars, roleVars, jniVars, gateVars, scanVars, timeVars,
                   trkVars, nearVars, passVars, lockVars,
                   inFrame, helperSlept, dllMapped, wndHooked,
                   cowVars,
                   exitVars,
                   cmdVars,
                   drawVars,
                   wtVars>>

\* Detach(): the window procedure is put back and the helper is spawned;
\* the import-table entry is left as it is.
DetachUnload ==
    /\ build = "bridge" /\ dllMapped /\ helperSlept = NotIn
    /\ wndHooked' = FALSE
    /\ helperSlept' = 0
    /\ UNCHANGED <<build, cfgVars, projVars, lifeVars, recvVars, entVars, tagVars,
                   ovVars, roleVars, jniVars, gateVars, scanVars, timeVars,
                   trkVars, nearVars, passVars, lockVars,
                   inFrame, inWndProc, dllMapped,
                   cowVars,
                   exitVars,
                   cmdVars,
                   drawVars,
                   wtVars>>

\* StepMs pass.
Aged(since) == IF since = NotIn THEN NotIn ELSE since + StepMs
UnloadClock ==
    /\ build = "bridge" /\ dllMapped
    /\ helperSlept # NotIn /\ helperSlept < SleepMs
    /\ inFrame + StepMs <= MaxFrameMs
    /\ inWndProc + StepMs <= MaxWndMs
    /\ inFrame' = Aged(inFrame)
    /\ inWndProc' = Aged(inWndProc)
    /\ helperSlept' = helperSlept + StepMs
    /\ UNCHANGED <<build, cfgVars, projVars, lifeVars, recvVars, entVars, tagVars,
                   ovVars, roleVars, jniVars, gateVars, scanVars, timeVars,
                   trkVars, nearVars, passVars, lockVars,
                   dllMapped, wndHooked,
                   cowVars,
                   exitVars,
                   cmdVars,
                   drawVars,
                   wtVars>>

\* Sleep(100) has returned.
SleepOver(slept) == slept # NotIn /\ slept >= SleepMs

\* The helper wakes: FreeLibraryAndExitThread.
HelperUnloads ==
    /\ build = "bridge" /\ dllMapped /\ SleepOver(helperSlept)
    /\ dllMapped' = FALSE
    /\ UNCHANGED <<build, cfgVars, projVars, lifeVars, recvVars, entVars, tagVars,
                   ovVars, roleVars, jniVars, gateVars, scanVars, timeVars,
                   trkVars, nearVars, passVars, lockVars,
                   inFrame, inWndProc, helperSlept, wndHooked,
                   cowVars,
                   exitVars,
                   cmdVars,
                   drawVars,
                   wtVars>>

(***************************************************************************)
(* PUBLICATION (bridge_121.cpp): build off to the side, then swap           *)
(*                                                                         *)
(* A value is [pass, got, want]: the pass that builds it, the elements it   *)
(* holds and the elements that pass will have put in it when its loop is    *)
(* over.  It is whole when got = want.  Every access to a published         *)
(* collection is inside a LockGuard of its mutex, so each is one step.      *)
(***************************************************************************)
MaxItems == 2         \* elements a pass finds
MaxPubPass == 3       \* passes of the polling thread
Cols == {"g_playerList", "g_chestList", "g_bgCamState"}
Readers == {"render", "net"}

EmptyValue == [pass |-> 0, got |-> 0, want |-> 0]
Whole(v) == v.got = v.want

CowIdle ==
    /\ col = "" /\ cowLocal = EmptyValue /\ cowPub = EmptyValue
    /\ cowSnap = [r \in Readers |-> EmptyValue] /\ cowPc = "idle"
CowInit ==
    /\ col \in Cols /\ cowLocal = EmptyValue /\ cowPub = EmptyValue
    /\ cowSnap = [r \in Readers |-> EmptyValue] /\ cowPc = "idle"

\* A pass declares its local value (std::vector localList; BgCamState cs).
PassBegins ==
    /\ build = "bridge_121" /\ cowPc = "idle" /\ cowLocal.pass < MaxPubPass
    /\ \E n \in 0..MaxItems :
         cowLocal' = [pass |-> cowLocal.pass + 1, got |-> 0, want |-> n]
    /\ cowPc' = "build"
    /\ UNCHANGED <<build, cfgVars, projVars, lifeVars, recvVars, entVars, tagVars,
                   ovVars, roleVars, jniVars, gateVars, scanVars, timeVars,
                   trkVars, nearVars, passVars, lockVars, unlVars,
                   col, cowPub, cowSnap,
                   exitVars,
                   cmdVars,
                   drawVars,
                   wtVars>>

\* localList.emplace_back(...) / a field of cs is set.
PassAddsElement ==
    /\ build = "bridge_121" /\ cowPc = "build" /\ cowLocal.got < cowLocal.want
    /\ cowLocal' = [cowLocal EXCEPT !.got = @ + 1]
    /\ UNCHANGED <<build, cfgVars, projVars, lifeVars, recvVars, entVars, tagVars,
                   ovVars, roleVars, jniVars, gateVars, scanVars, timeVars,
                   trkVars, nearVars, passVars, lockVars, unlVars,
                   col, cowPub, cowSnap, cowPc,
                   exitVars,
                   cmdVars,
                   drawVars,
                   wtVars>>

\* The swap (the assignment, for the camera state) comes after the loops.
SwapAnyTime(v) == TRUE
SwapAfterLoops(v) == Whole(v)

\* { LockGuard lk(mutex); published.swap(localList); } : the local value
\* takes the place of the published one and dies at the end of the scope.
PassPublishes ==
    /\ build = "bridge_121" /\ cowPc = "build" /\ SwapAfterLoops(cowLocal)
    /\ cowPub' = cowLocal
    /\ cowPc' = "idle"
    /\ UNCHANGED <<build, cfgVars, projVars, lifeVars, recvVars, entVars, tagVars,
                   ovVars, roleVars, jniVars, gateVars, scanVars, timeVars,
                   trkVars, nearVars, passVars, lockVars, unlVars,
                   col, cowLocal, cowSnap,
                   exitVars,
                   cmdVars,
                   drawVars,
                   wtVars>>

\* Not in a world: { LockGuard lk(mutex); published.clear(); }
PollClearsPublished ==
    /\ build = "bridge_121" /\ cowPc = "idle" /\ cowLocal.pass < MaxPubPass
    /\ cowLocal' = [pass |-> cowLocal.pass + 1, got |-> 0, want |-> 0]
    /\ cowPub' = [pass |-> cowLocal.pass + 1, got |-> 0, want |-> 0]
    /\ UNCHANGED <<build, cfgVars, projVars, lifeVars, recvVars, entVars, tagVars,
                   ovVars, roleVars, jniVars, gateVars, scanVars, timeVars,
                   trkVars, nearVars, passVars, lockVars, unlVars,
                   col, cowSnap, cowPc,
                   exitVars,
                   cmdVars,
                   drawVars,
                   wtVars>>

\* { LockGuard lk(mutex); snapshot = published; } on the render thread or
\* the network thread (the render thread reads g_chestList in place, inside
\* the guard).
ReaderCopies ==
    /\ build = "bridge_121"
    /\ \E r \in Readers :
         /\ (r = "net" => col # "g_chestList")
         /\ cowSnap' = [cowSnap EXCEPT ![r] = cowPub]
    /\ UNCHANGED <<build, cfgVars, projVars, lifeVars, recvVars, entVars, tagVars,
                   ovVars, roleVars, jniVars, gateVars, scanVars, timeVars,
                   trkVars, nearVars, passVars, lockVars, unlVars,
                   col, cowLocal, cowPub, cowPc,
                   exitVars,
                   cmdVars,
                   drawVars,
                   wtVars>>

(***************************************************************************)
(* ENTITY-LIST PASS (bridge_121.cpp): the ways out of UpdatePlayerListOverlay *)
(*                                                                         *)
(* localList and the PublishOnExit object that refers to it are declared    *)
(* after the throttle test and before every other return, so the destructor *)
(* runs on each of them.                                                    *)
(***************************************************************************)
MaxExitPasses == 2    \* passes of the polling thread
ExitEnts == {1, 2}    \* the entities of the world

ExitInputs ==
    [throttled : BOOLEAN, caches : BOOLEAN, world : BOOLEAN, self : BOOLEAN,
     list : BOOLEAN, toArray : BOOLEAN, arr : BOOLEAN, ents : SUBSET ExitEnts]
NoExitInput ==
    [throttled |-> FALSE, caches |-> FALSE, world |-> FALSE, self |-> FALSE,
     list |-> FALSE, toArray |-> FALSE, arr |-> FALSE, ents |-> {}]

\* The return the pass leaves by.
ListPassExit(in) ==
    IF in.throttled THEN "throttled"
    ELSE IF ~in.caches THEN "noAccessors"
    ELSE IF ~in.world \/ ~in.self THEN "noWorldOrSelf"
    ELSE IF ~in.list THEN "noList"
    ELSE IF ~in.toArray THEN "noToArray"
    ELSE IF ~in.arr THEN "noArray"
    ELSE "end"
EarlyExits == {"noAccessors", "noWorldOrSelf", "noList", "noToArray", "noArray"}

\* localList at that return: filled by the second loop only.
LocalListAt(in) == IF ListPassExit(in) = "end" THEN in.ents ELSE {}

\* ~PublishOnExit() { LockGuard lk(g_playerListMutex); g_playerList.swap(local); }
PublishAtEnd(exit, published, local) ==
    IF exit = "end" THEN local ELSE published
PublishOnExit(exit, published, local) == local

ExitIdle ==
    /\ plPub = {} /\ plBefore = {} /\ plIn = NoExitInput /\ plExit = "none"
    /\ plPasses = 0

UpdatePlayerListExits ==
    /\ build = "bridge_121" /\ plPasses < MaxExitPasses
    /\ \E in \in ExitInputs :
         /\ plIn' = in
         /\ plExit' = ListPassExit(in)
         /\ plPub' = IF in.throttled THEN plPub
                     ELSE PublishOnExit(ListPassExit(in), plPub, LocalListAt(in))
    /\ plBefore' = plPub
    /\ plPasses' = plPasses + 1
    /\ UNCHANGED <<build, cfgVars, projVars, lifeVars, recvVars, entVars, tagVars,
                   ovVars, roleVars, jniVars, gateVars, scanVars, timeVars,
                   trkVars, nearVars, passVars, lockVars, unlVars, cowVars,
                   cmdVars,
                   drawVars,
                   wtVars>>

(***************************************************************************)
(* COMMANDS TO THE CONTROLLER (both builds)                                 *)
(*                                                                         *)
(* The window procedure and the render callback append command lines to the *)
(* pending vector under g_cmdMutex; the network thread empties the vector   *)
(* under the same mutex and then writes the lines it took, one send each,   *)
(* on the client socket, which was put in non-blocking mode at accept.      *)
(* Commands are numbered in enqueue order.                                  *)
(***************************************************************************)
MaxCmds == 4          \* commands enqueued in a run

\* What a send on the non-blocking client socket may return while the
\* controller is connected, and after the connection broke.
SendResults(up) == IF up THEN {"sent", "wouldBlock", "error"} ELSE {"error"}

CmdIdle ==
    /\ g_pendingCmds = <<>> /\ cmds = <<>> /\ cmdWire = <<>>
    /\ cmdCount = 0 /\ cmdConn = TRUE

\* SendCmd / SendCmdFloat (bridge_121.cpp); the keybind capture and the
\* frameCmds of the menu (bridge.cpp).
SendCmd ==
    /\ cmdCount < MaxCmds
    /\ cmdCount' = cmdCount + 1
    /\ g_pendingCmds' = Append(g_pendingCmds, cmdCount + 1)
    /\ UNCHANGED <<build, cfgVars, projVars, lifeVars, recvVars, entVars, tagVars,
                   ovVars, roleVars, jniVars, gateVars, scanVars, timeVars,
                   trkVars, nearVars, passVars, lockVars, unlVars, cowVars,
                   exitVars, cmds, cmdWire, cmdConn,
                   drawVars,
                   wtVars>>

\* { LockGuard lk(g_cmdMutex); cmds.swap(g_pendingCmds); }  (bridge_121.cpp)
\* { LockGuard lk(g_cmdMutex); cmds = g_pendingCommands;
\*   g_pendingCommands.clear(); }                            (bridge.cpp)
\* cmds is a fresh local of the loop body: the lines of the last turn that
\* were not written are gone with it.
TakePendingCmds ==
    /\ cmds = <<>> /\ g_pendingCmds # <<>>
    /\ cmds' = g_pendingCmds
    /\ g_pendingCmds' = <<>>
    /\ UNCHANGED <<build, cfgVars, projVars, lifeVars, recvVars, entVars, tagVars,
                   ovVars, roleVars, jniVars, gateVars, scanVars, timeVars,
                   trkVars, nearVars, passVars, lockVars, unlVars, cowVars,
                   exitVars, cmdCount, cmdWire, cmdConn,
                   drawVars,
                   wtVars>>

\* One turn of  for (const auto& c : cmds) send(...).  bridge_121.cpp drops
\* the result; bridge.cpp leaves the loop on an error other than
\* WSAEWOULDBLOCK and goes on to the next line otherwise.
SendPendingCmd ==
    /\ cmds # <<>>
    /\ \E r \in SendResults(cmdConn) :
         /\ cmdWire' = IF r = "sent" THEN Append(cmdWire, Head(cmds)) ELSE cmdWire
         /\ cmds' = IF r = "error" /\ build = "bridge" THEN <<>> ELSE Tail(cmds)
         /\ cmdConn' = (cmdConn /\ r # "error")
    /\ UNCHANGED <<build, cfgVars, projVars, lifeVars, recvVars, entVars, tagVars,
                   ovVars, roleVars, jniVars, gateVars, scanVars, timeVars,
                   trkVars, nearVars, passVars, lockVars, unlVars, cowVars,
                   exitVars, g_pendingCmds, cmdCount,
                   drawVars,
                   wtVars>>

(***************************************************************************)
(* WORLD TRANSITIONS (bridge_121.cpp): what becomes of the chest list       *)
(*                                                                         *)
(* The host's world is a number (0: none) and so is every transition the    *)
(* polling thread has detected; the published chest list carries the world  *)
(* it was scanned in and the number of transitions detected by then.  The   *)
(* five seconds of the transition window are WindowPolls turns of the       *)
(* polling loop.                                                            *)
(***************************************************************************)
MaxWorlds == 2        \* worlds the host goes through
MaxWtPolls == 4       \* turns of the polling loop
WindowPolls == 2      \* turns the transition window lasts
WtScreens == {"", "loading"}

NoChests == [world |-> 0, epoch |-> 0]
NoDraw == [drew |-> FALSE, world |-> 0, epoch |-> 0, host |-> 0, at |-> 0]

WtIdle ==
    /\ wtWorld = 0 /\ hostScreen = "" /\ wtLastScreen = ""
    /\ wtWindow = 0 /\ g_chestList = NoChests /\ g_jniInWorld = FALSE
    /\ wtEpoch = 0 /\ wtPolls = 0
    /\ wtDrawn = NoDraw

\* The game joins, leaves or changes its world and shows or closes a screen.
HostChangesWorld ==
    /\ build = "bridge_121"
    /\ \E w \in 0..MaxWorlds, s \in WtScreens :
         /\ <<w, s>> # <<wtWorld, hostScreen>>
         /\ wtWorld' = w /\ hostScreen' = s
    /\ UNCHANGED <<build, cfgVars, projVars, lifeVars, recvVars, entVars, tagVars,
                   ovVars, roleVars, jniVars, gateVars, scanVars, timeVars,
                   trkVars, nearVars, passVars, lockVars, unlVars, cowVars,
                   exitVars, cmdVars, drawVars,
                   wtLastScreen, wtWindow, g_chestList, g_jniInWorld, wtEpoch,
                   wtPolls, wtDrawn>>

\* UpdateJniState, the end of the screen detection: [lastScreen, window,
\* epoch] after it.
ScreenChange(screen, last, window, epoch) ==
    IF screen # last
    THEN [last |-> screen, window |-> WindowPolls, epoch |-> epoch + 1]
    ELSE [last |-> last, window |-> window, epoch |-> epoch]

\* UpdateChestList: the list it leaves published.  It returns before the
\* swap inside the transition window and when the chunks cannot be reached.
ChestListAfter(list, window, world, epoch, chunksOk, found) ==
    IF window > 0 \/ ~chunksOk THEN list
    ELSE IF found THEN [world |-> world, epoch |-> epoch]
    ELSE NoChests

\* One turn of the loop of ChestScanThreadProc with g_stateJniReady set;
\* the Sleep(50) of the turn before has used up one turn of the window.
ChestScanTurn ==
    /\ build = "bridge_121" /\ wtPolls < MaxWtPolls
    /\ wtPolls' = wtPolls + 1
    /\ \E chestEsp \in BOOLEAN, chunksOk \in BOOLEAN, found \in BOOLEAN :
         LET left == IF wtWindow > 0 THEN wtWindow - 1 ELSE 0
             sc == ScreenChange(hostScreen, wtLastScreen, left, wtEpoch)
             inWorldNow == wtWorld # 0
         IN  /\ wtLastScreen' = sc.last
             /\ wtWindow' = sc.window
             /\ wtEpoch' = sc.epoch
             /\ g_jniInWorld' = inWorldNow
             /\ g_chestList' =
                    IF ~inWorldNow THEN NoChests
                    ELSE IF chestEsp
                    THEN ChestListAfter(g_chestList, sc.window, wtWorld,
                                        sc.epoch, chunksOk, found)
                    ELSE g_chestList
    /\ UNCHANGED <<build, cfgVars, projVars, lifeVars, recvVars, entVars, tagVars,
                   ovVars, roleVars, jniVars, gateVars, scanVars, timeVars,
                   trkVars, nearVars, passVars, lockVars, unlVars, cowVars,
                   exitVars, cmdVars, drawVars,
                   wtWorld, hostScreen, wtDrawn>>

\* hwglSwapBuffers, the chest ESP block: with the menu closed, g_jniInWorld
\* set, the module on and a usable camera, every record of g_chestList in
\* range is drawn.  wtDrawn keeps the world and the epoch of the records
\* drawn, and the host's world and the epoch at the time of the frame.
RenderChestEsp ==
    /\ build = "bridge_121"
    /\ \E chestEsp \in BOOLEAN, camOk \in BOOLEAN :
         wtDrawn' =
             IF g_jniInWorld /\ chestEsp /\ camOk /\ g_chestList # NoChests
             THEN [drew |-> TRUE, world |-> g_chestList.world,
                   epoch |-> g_chestList.epoch, host |-> wtWorld,
                   at |-> wtEpoch]
             ELSE NoDraw
    /\ UNCHANGED <<build, cfgVars, projVars, lifeVars, recvVars, entVars, tagVars,
                   ovVars, roleVars, jniVars, gateVars, scanVars, timeVars,
                   trkVars, nearVars, passVars, lockVars, unlVars, cowVars,
                   exitVars, cmdVars, drawVars,
                   wtWorld, hostScreen, wtLastScreen, wtWindow, g_chestList,
                   g_jniInWorld, wtEpoch, wtPolls>>

(***************************************************************************)
(* SPECIFICATIONS                                                          *)
(***************************************************************************)
SideIdle == RecvIdle /\ EntIdle /\ TagIdle /\ OvIdle /\ RoleIdle /\ JniIdle
    /\ GateIdle
    /\ ScanIdle
    /\ TimeIdle
    /\ TrkIdle
    /\ NearIdle
    /\ PassIdle
    /\ LockIdle
    /\ UnlIdle
    /\ CowIdle
    /\ ExitIdle
    /\ CmdIdle
    /\ DrawIdle
    /\ WtIdle

InitConfig == build \in Builds /\ CfgInit /\ ProjIdle /\ LifeInit /\ SideIdle
NextConfig == RecvLine121 \/ RecvLine189
SpecConfig == InitConfig /\ [][NextConfig]_vars

InitProj == build \in Builds /\ CfgInit /\ ProjInit /\ LifeInit /\ SideIdle
NextProj == \/ CallWorldToScreen \/ CallWorldToScreen_Angles
            \/ CallWorldToScreen189_Matrix
SpecProj == InitProj /\ [][NextProj]_vars

InitLegacy == build = "bridge" /\ CfgInit /\ ProjIdle /\ LifeInit /\ SideIdle
SpecLegacy == InitLegacy /\ [][NextLegacy]_vars

InitBridge == build \in Builds /\ CfgInit /\ ProjIdle /\ LifeInit /\ SideIdle
NextBridge == NextLegacy \/ Next121
SpecBridge == InitBridge /\ [][NextBridge]_vars

\* The server thread and the unload helper are scheduled (a server thread
\* that is runnable after the unload runs, and faults); the controller and
\* the game's frames are not obliged to act.
SpecLegacyFair ==
    /\ SpecLegacy
    /\ WF_vars(ServerThread189)
    /\ WF_vars(ServerAfterUnload)
    /\ WF_vars(FreeLibraryAndExitThread)

Init121 == build = "bridge_121" /\ CfgInit /\ ProjIdle /\ LifeInit /\ SideIdle
Next121Env ==
    \/ HostAdvances \/ HostWorldChanges \/ ClientConnects \/ ClientCloses
    \/ ClientResets \/ Next121
Spec121 == Init121 /\ [][Next121Env]_vars

\* MainThread is scheduled; the host, the controller, the game's frames
\* and the polling thread are not obliged to act.
Spec121Fair == Spec121 /\ WF_vars(MainThread121)

InitRecv == build \in Builds /\ CfgInit /\ ProjIdle /\ LifeInit /\ SideIdle
NextRecv == ControllerWrites \/ MainThreadRecvBytes \/ ServerLoopRecvBytes
SpecRecv == InitRecv /\ [][NextRecv]_vars

InitEntity ==
    /\ build = "bridge_121" /\ CfgInit /\ ProjIdle /\ LifeInit /\ RecvIdle
    /\ EntInit /\ TagIdle /\ OvIdle /\ RoleIdle /\ JniIdle
    /\ GateIdle
    /\ ScanIdle
    /\ TimeIdle
    /\ TrkIdle
    /\ NearIdle
    /\ PassIdle
    /\ LockIdle
    /\ UnlIdle
    /\ CowIdle
    /\ ExitIdle
    /\ CmdIdle
    /\ DrawIdle
    /\ WtIdle
NextEntity == MainThreadEntity
SpecEntity == InitEntity /\ [][NextEntity]_vars

InitSmooth == build \in Builds /\ CfgInit /\ ProjIdle /\ LifeInit /\ SideIdle
NextSmooth == RenderNametagsSmooth \/ SwapBuffersSmooth
SpecSmooth == InitSmooth /\ [][NextSmooth]_vars

InitOverlay == build = "bridge_121" /\ CfgInit /\ ProjIdle /\ LifeInit /\ SideIdle
NextOverlay == ContextRecreated \/ SwapBuffersBackend
SpecOverlay == InitOverlay /\ [][NextOverlay]_vars

InitJni == build = "bridge_121" /\ CfgInit /\ ProjIdle /\ LifeInit /\ SideIdle
NextJni == DiscoverJniFields \/ ChestScanReadCamera \/ ChestScanUpdateList
SpecJni == InitJni /\ [][NextJni]_vars

InitGate == build = "bridge_121" /\ CfgInit /\ ProjIdle /\ LifeInit /\ SideIdle
NextGate == ResolveAccessors \/ ChestScanPlayers \/ ChestScanCamera
SpecGate == InitGate /\ [][NextGate]_vars

InitScan ==
    /\ build \in Builds /\ CfgInit /\ ProjIdle /\ LifeInit /\ RecvIdle
    /\ EntIdle /\ TagIdle /\ OvIdle /\ RoleIdle /\ JniIdle /\ GateIdle
    /\ ScanInit /\ TimeIdle /\ TrkIdle /\ NearIdle /\ PassIdle /\ LockIdle /\ UnlIdle /\ CowIdle /\ ExitIdle /\ CmdIdle /\ DrawIdle /\ WtIdle
NextScan == DiscoverJniMappingsScan \/ DiscoverMappingsScan
SpecScan == InitScan /\ [][NextScan]_vars

InitClock ==
    /\ build = "bridge_121" /\ CfgInit /\ ProjIdle /\ LifeInit /\ RecvIdle
    /\ EntIdle /\ TagIdle /\ OvIdle /\ RoleIdle /\ JniIdle /\ GateIdle
    /\ ScanIdle /\ TimeInit /\ TrkIdle /\ NearIdle /\ PassIdle /\ LockIdle /\ UnlIdle /\ CowIdle /\ ExitIdle /\ CmdIdle /\ DrawIdle /\ WtIdle
NextClock ==
    \/ PollSleep \/ UpdateJniStateScreen \/ UpdatePlayerListThrottle
    \/ UpdateChestList
SpecClock == InitClock /\ [][NextClock]_vars

InitTrack ==
    /\ build \in Builds /\ CfgInit /\ ProjIdle /\ LifeInit /\ RecvIdle
    /\ EntIdle /\ TagIdle /\ OvIdle /\ RoleIdle /\ JniIdle /\ GateIdle
    /\ ScanIdle /\ TimeIdle /\ TrkInit /\ NearIdle /\ PassIdle /\ LockIdle /\ UnlIdle /\ CowIdle /\ ExitIdle /\ CmdIdle /\ DrawIdle /\ WtIdle
NextTrack == SwapBuffersTrack \/ RenderNametagsTrack
SpecTrack == InitTrack /\ [][NextTrack]_vars

InitNear == build = "bridge_121" /\ CfgInit /\ ProjIdle /\ LifeInit /\ SideIdle
NextNear == UpdatePlayerListNearest
SpecNear == InitNear /\ [][NextNear]_vars

InitPass == build \in Builds /\ CfgInit /\ ProjIdle /\ LifeInit /\ SideIdle
NextPass == DiscoverJniMappingsPass \/ DiscoverMappingsPass
SpecPass == InitPass /\ [][NextPass]_vars

InitLocks == build \in Builds /\ CfgInit /\ ProjIdle /\ LifeInit /\ SideIdle
NextLocks ==
    OtherThreadLock \/ ThreadUnlock \/ RenderReachLock \/ RenderEnterLock
SpecLocks == InitLocks /\ [][NextLocks]_vars

InitUnload ==
    /\ build = "bridge" /\ CfgInit /\ ProjIdle /\ LifeInit /\ RecvIdle
    /\ EntIdle /\ TagIdle /\ OvIdle /\ RoleIdle /\ JniIdle /\ GateIdle
    /\ ScanIdle /\ TimeIdle /\ TrkIdle /\ NearIdle /\ PassIdle /\ LockIdle
    /\ UnlInit /\ CowIdle /\ ExitIdle /\ CmdIdle /\ DrawIdle /\ WtIdle
NextUnload ==
    \/ SwapBuffersEnter \/ SwapBuffersLeave \/ WndProcEnter \/ WndProcLeave
    \/ DetachUnload \/ UnloadClock \/ HelperUnloads
SpecUnload == InitUnload /\ [][NextUnload]_vars

InitPublish ==
    /\ build = "bridge_121" /\ CfgInit /\ ProjIdle /\ LifeInit /\ RecvIdle
    /\ EntIdle /\ TagIdle /\ OvIdle /\ RoleIdle /\ JniIdle /\ GateIdle
    /\ ScanIdle /\ TimeIdle /\ TrkIdle /\ NearIdle /\ PassIdle /\ LockIdle
    /\ UnlIdle /\ CowInit /\ ExitIdle /\ CmdIdle /\ DrawIdle /\ WtIdle
NextPublish ==
    \/ PassBegins \/ PassAddsElement \/ PassPublishes \/ PollClearsPublished
    \/ ReaderCopies
SpecPublish == InitPublish /\ [][NextPublish]_vars

InitExits == build = "bridge_121" /\ CfgInit /\ ProjIdle /\ LifeInit /\ SideIdle
NextExits == UpdatePlayerListExits
SpecExits == InitExits /\ [][NextExits]_vars

InitCmds == build \in Builds /\ CfgInit /\ ProjIdle /\ LifeInit /\ SideIdle
NextCmds == SendCmd \/ TakePendingCmds \/ SendPendingCmd
SpecCmds == InitCmds /\ [][NextCmds]_vars

InitWorlds == build = "bridge_121" /\ CfgInit /\ ProjIdle /\ LifeInit /\ SideIdle
NextWorlds == HostChangesWorld \/ ChestScanTurn \/ RenderChestEsp
SpecWorlds == InitWorlds /\ [][NextWorlds]_vars

InitRoles == build = "bridge_121" /\ CfgInit /\ ProjIdle /\ LifeInit /\ SideIdle
NextRoles == DiscoverRolesPass
SpecRoles == InitRoles /\ [][NextRoles]_vars

\* The world point lies on or behind the camera plane.
BehindCamera ==
    Dot([x |-> projIn.pos.x - projIn.cam.x, y |-> projIn.pos.y - projIn.cam.y,
         z |-> projIn.pos.z - projIn.cam.z],
        Forward(projIn.yaw, projIn.pitch)) <= 0

C2_RenderNoHostCall == ~renderJni

C4_CopiesFromOnePass ==
    (rdPc = "drawn" /\ rd.cam # 0 /\ rd.players # 0 /\ rd.chests # 0)
        => (rd.cam = rd.players /\ rd.players = rd.chests)

(***************************************************************************)
(* C6: when the bridge unloads itself, every entry point it hooked (the    *)
(* frame-present function and the window procedure) has been restored.     *)
(***************************************************************************)
C6_HooksRestoredAtUnload ==
    ~loaded => (~swapHooked /\ winProc = "orig")

(***************************************************************************)
(* C7: once Detach has put the window procedure back, it stays put back:   *)
(* no later step (no render callback) installs the hook again.             *)
(***************************************************************************)
C7_WndProcStaysRestored ==
    [][(~g_running /\ g_origWndProc /\ winProc = "orig")
          => winProc' = "orig"]_vars

(***************************************************************************)
(* C8: once the running flag is cleared the server thread leaves its       *)
(* accept loop and per-connection loop and terminates; it does not stay    *)
(* blocked (a process that died in between is not counted against this).   *)
(***************************************************************************)
C8_LoopsTerminate == (~g_running) ~> (srvPc = "exited" \/ crashed)

\* The discovery phase has just ended and its latest pass did not find the
\* root.
DiscoveryFailed ==
    /\ attempts >= 1
    /\ srvPc \in {"listen", "top"}
    /\ ~mapped

(***************************************************************************)
(* C9: discovery that fails on the root is retried until it succeeds or    *)
(* MaxAttempts passes were made: it does not give up earlier (and never    *)
(* runs more than MaxAttempts passes).                                     *)
(***************************************************************************)
C9_RetriedUntilBound ==
    /\ attempts <= MaxAttempts
    /\ DiscoveryFailed => attempts = MaxAttempts

\* Discovery is over and no pass found the root (bridge_121's MainThread
\* exits only when hooking failed, before any pass was run).
AllAttemptsFailed ==
    /\ srvPc \notin {"hook", "discover", "backoff"}
    /\ ~mapped
    /\ ~(build = "bridge_121" /\ srvPc = "exited")

(***************************************************************************)
(* C10: when every discovery attempt failed the server thread still        *)
(* listens and serves a controller, and every state line it sends lists    *)
(* no entities and carries no host-derived flags.                          *)
(***************************************************************************)
C10_UnavailableReported ==
    AllAttemptsFailed =>
        /\ (srvPc = "exited" => ~g_running)
        /\ (sent.kind = "state" => (~sent.entities /\ ~sent.flags))

\* All five passes failed, the host finished starting afterwards and is in
\* a world, the polling thread ran, a controller is connected and has been
\* sent a state line.
C10_Witness ==
    /\ build = "bridge_121" /\ AllAttemptsFailed /\ srvPc = "state"
    /\ hostStage = 2 /\ hostWorld
    /\ pass >= 1 /\ pollPc = "top"
    /\ client = "connected" /\ sent.kind = "state"

(***************************************************************************)
(* C1: parsing {"type":"config","armed":true} leaves every Config field    *)
(* other than armed at the value it had before the message.                *)
(***************************************************************************)
C1_OtherFields == DOMAIN g_config \ {"armed"}

C1_PartialUpdate ==
    [][(cfgLine' = ArmedOnlyLine /\ ~cfgThrew')
          => \A f \in C1_OtherFields : g_config'[f] = g_config[f]]_vars

(***************************************************************************)
(* C11: after the connected controller disconnects, by orderly close or    *)
(* by connection error, the network thread eventually leaves the           *)
(* per-connection loop: the socket is closed and accept is reached again.  *)
(***************************************************************************)
C11_ReturnsToAccept == (client \in {"closed", "reset"}) ~> (client = "none")

\* What recv() has handed over so far.
Delivered == SubSeq(wire, 1, rcvd)

\* The positions of the line terminators delivered so far.
Terminators == {i \in 1..rcvd : wire[i] = NL}

\* The line that the terminator at position i ends.
LineEndingAt(i) ==
    LET before == {j \in Terminators : j < i}
        start  == IF before = {} THEN 1
                  ELSE 1 + CHOOSE j \in before : \A k \in before : k <= j
    IN  SubSeq(wire, start, i - 1)

\* The k-th non-empty complete line delivered so far.
FullLineEnds == {i \in Terminators : LineEndingAt(i) # <<>>}
KthEnd(k) ==
    CHOOSE i \in FullLineEnds : Cardinality({j \in FullLineEnds : j <= i}) = k

\* The bytes delivered after the last terminator.
Unterminated ==
    IF Terminators = {} THEN Delivered
    ELSE SubSeq(wire, 1 + (CHOOSE j \in Terminators :
                               \A k \in Terminators : k <= j), rcvd)

TextOnly == \A i \in 1..Len(wire) : wire[i] # NUL

(***************************************************************************)
(* C12: for text input, readBuf is exactly the bytes delivered after the   *)
(* last terminator, and the ParseConfig calls made so far are exactly the  *)
(* non-empty complete lines delivered so far, each once, whole, in         *)
(* arrival order, however the bytes were split over reads.                 *)
(***************************************************************************)
C12_LinesBuffered ==
    TextOnly =>
        /\ readBuf = Unterminated
        /\ Len(parsed) = Cardinality(FullLineEnds)
        /\ \A k \in 1..Len(parsed) : parsed[k] = LineEndingAt(KthEnd(k))

\* A two-byte line and its terminator arrived in at least two reads (one
\* read hands over at most MaxChunk bytes) and the line was parsed once.
C12_Witness ==
    /\ TextOnly /\ rcvd = 3 /\ wire[3] = NL
    /\ wire[1] # NL /\ wire[2] # NL
    /\ parsed = <<SubSeq(wire, 1, 2)>>
    /\ readBuf = <<>>

\* Some point of the player's body box, or the fallback point, projects
\* with the copied camera state.
SomePointProjects ==
    \E o \in {BodyOffsets[n] : n \in 1..45} \cup {FallbackOffset} :
        projectPoint(Plus(entIn.p, o), entIn.camState, WinW, WinH).ok

(***************************************************************************)
(* C13: an entity that could not be projected for this state line (no      *)
(* camera state was available, or no point of it projects) is reported     *)
(* with sx = -1 and sy = -1.                                               *)
(***************************************************************************)
C13_UnprojectedIsMinusOne ==
    (entOut.built /\ (~entIn.camState.camFound \/ ~SomePointProjects))
        => (entOut.sx = -1 /\ entOut.sy = -1)

\* No camera state was available although the copied matrices and angles
\* would have projected the player.
C13_Witness ==
    /\ entOut.built /\ ~entIn.camState.camFound /\ SomePointProjects
    /\ entOut.sx = -1 /\ entOut.sy = -1

\* A camera state was available and every point of the player lies
\* behind the camera.
C13_WitnessBehind ==
    /\ entOut.built /\ entIn.camState.camFound /\ ~SomePointProjects
    /\ entIn.camState.proj # ZeroMatrix
    /\ entOut.sx = -1 /\ entOut.sy = -1

(***************************************************************************)
(* C14: in a frame where the newly projected position of a tracked player  *)
(* differs from its smoothed position by more than the large-delta         *)
(* threshold, the smoothed position after the frame is the new projected   *)
(* position (a snap, no blend).                                            *)
(***************************************************************************)
C14_LargeJumpSnaps ==
    [][(tagFrame' = tagFrame + 1 /\ tagSmooth.init
          /\ DeltaSq(tagProj', tagSmooth) > LargeDeltaSq * Px * Px)
        => (tagSmooth'.x = tagProj'.x /\ tagSmooth'.y = tagProj'.y)]_vars

C16_TeardownSkipsDeletes == ovHist.deletes = 0 /\ ~skipGLDeletes

\* The teardown after a context change has run, with the new context
\* current.
C16_Witness ==
    /\ ovHist.tornAt # 0 /\ ovHist.detectedAt # 0
    /\ currentRc = imgui.glrc /\ ~imgui.initialized
    /\ ovHist.deletes = 0 /\ ~skipGLDeletes

\* All handles of the camera-position role are null, or all were resolved
\* in one pass.
CamRoleWhole ==
    /\ camRole.x = camRole.posF
    /\ camRole.y = camRole.posF
    /\ camRole.z = camRole.posF

\* The chat-screen role is untouched, or class, constructor and kind were
\* stored by one pass (and the kind is the constructor's shape).
ChatRoleWhole ==
    \/ chatRole = NoChatRole
    \/ /\ chatRole.cls # 0
       /\ chatRole.ctor = chatRole.cls
       /\ chatRole.kindFrom = chatRole.cls
       /\ chatRole.kind = chatRole.ctorShape

(***************************************************************************)
(* C17: after any discovery pass every role made of several handles is     *)
(* whole: all its handles come from one resolution, or it is Unresolved.   *)
(***************************************************************************)
C17_RolesAllOrNothing == CamRoleWhole /\ ChatRoleWhole

(***************************************************************************)
(* C18: the network thread makes no call into the host runtime while it    *)
(* serves a connection; it only reads Config and copies of published       *)
(* state.                                                                  *)
(***************************************************************************)
C18_ServerNoHostCall == ~serverJni

\* What the list must hold for entity i of the last update: nothing when
\* its element could not be fetched, else one entry whose fields are the
\* host's values where the call returned and the defaults where it raised.
EntryAsExpected(i, f) ==
    IF f = "elem"
    THEN \A e \in g_playerList : e.id # i
    ELSE \E e \in g_playerList :
           /\ e.id = i
           /\ e.x = (IF f = "pos" THEN 0 ELSE i)
           /\ e.name = (IF f = "name" THEN "Player" ELSE "n")
           /\ e.hp = (IF f = "hp" THEN DefaultHp ELSE i)
           /\ \A d \in g_playerList : d.id = i => d = e

C20_NoCallWhilePending == jniBad = 0

(***************************************************************************)
(* C21: while a handle is Unresolved the feature that depends on it does   *)
(* nothing: no host access goes through the handle, and nothing is         *)
(* published that the handle would have supplied (no player without a      *)
(* mapped position, no camera position without Vec3d.x).                   *)
(***************************************************************************)
C21_UnresolvedMeansNoOp ==
    /\ gated.used \subseteq accCache
    /\ (/\ gated.op = "players"
        /\ "g_getX_121" \notin accCache
        /\ ~({"g_entityPosField_121", "g_vec3dX_121"} \subseteq accCache))
       => gated.players = {}
    /\ (gated.op = "camera" /\ "g_vec3dX_121" \notin accCache)
       => ~gated.camFound

\* The classes of the list that qualify as root candidates.
Candidates ==
    {i \in 1..Len(scanIn) : ~Skipped(scanIn[i]) /\ scanIn[i].hasSelf
                              /\ scanIn[i].objCount > Threshold}
Primary(i) == scanIn[i].ns = "net.minecraft"

(***************************************************************************)
(* C22: when several classes qualify, the root selected is one of the      *)
(* primary namespace if there is one, and among the candidates equal on    *)
(* that it has the most non-static fields, whatever the order of           *)
(* enumeration.                                                            *)
(***************************************************************************)
C22_BestCandidateSelected ==
    (scanOut.done /\ Candidates # {}) =>
        /\ scanOut.sel \in Candidates
        /\ (\E j \in Candidates : Primary(j)) => Primary(scanOut.sel)
        /\ \A j \in Candidates :
               Primary(j) = Primary(scanOut.sel)
                   => scanIn[j].objCount <= scanIn[scanOut.sel].objCount

(***************************************************************************)
(* C23: the fallback scan selects no class that lacks a static field of    *)
(* its own type or that declares 15 non-static fields or fewer.            *)
(***************************************************************************)
C23_OnlyCandidatesSelected ==
    (scanOut.done /\ scanOut.sel # 0) =>
        /\ scanIn[scanOut.sel].hasSelf
        /\ scanIn[scanOut.sel].objCount > Threshold

\* The scan has passed over a class with a self-typed static field and
\* exactly 15 fields and over one with more fields and no such static
\* field, and selected the third.
C23_Witness ==
    /\ scanOut.done /\ scanOut.sel = 3 /\ Len(scanIn) = 3
    /\ scanIn[1].hasSelf /\ scanIn[1].objCount = Threshold
    /\ scanIn[1].ns = "net.minecraft"
    /\ ~scanIn[2].hasSelf /\ scanIn[2].objCount > scanIn[3].objCount
    /\ scanIn[2].ns = "net.minecraft"

(***************************************************************************)
(* C24: a handle that is Resolved is never cleared back to Unresolved nor  *)
(* replaced, by any thread.                                                *)
(***************************************************************************)
C24_WrittenAtMostOnce ==
    [][g_chunkBlockEntitiesMapField_121 # 0 =>
           g_chunkBlockEntitiesMapField_121'
               = g_chunkBlockEntitiesMapField_121]_vars

(***************************************************************************)
(* C28: two consecutive executions of the entity-list scan, and of the     *)
(* container scan, are at least 100 ms apart.                              *)
(***************************************************************************)
C28_ScansThrottled ==
    scanHist.op \in {"list", "chest"} =>
        (scanHist.gap = Never \/ scanHist.gap >= ThrottleMs)

\* The container scan has run, was then called again 50 ms later and
\* throttled, and has run again 100 ms after that.
C28_Witness ==
    /\ scanHist.op = "chest" /\ scanHist.gap = 150 /\ scanHist.sleeps = 3
    /\ g_lastChestScanMs = tick

(***************************************************************************)
(* C29: while the world-transition window is open the container scan      *)
(* looks no chunk up: it does not start, and it stops looking up.          *)
(***************************************************************************)
C29_NoLookupInWindow ==
    (scanHist.op = "chest" /\ scanHist.winLeft > 0) => scanHist.lookups = 0

\* The entry of key k exists, and the time of its last refresh.
Tracked(k) ==
    IF build = "bridge_121" THEN s_nametagSmooth[k].live
    ELSE g_tagSmoothing[k].init
RefreshedAt(k) ==
    IF build = "bridge_121" THEN s_nametagSmooth[k].lastSeenMs
    ELSE g_tagSmoothing[k].seenMs

(***************************************************************************)
(* C25: after a frame that went through the tag pass, no smoothing entry    *)
(* is left whose last refresh is more than 1.2 seconds old.                 *)
(***************************************************************************)
C25_StaleEntriesRemoved ==
    trkHist.ran =>
        \A k \in Keys : Tracked(k) => trkNow - RefreshedAt(k) <= TimeoutMs

(***************************************************************************)
(* C26: in every frame and for every key, an entry appears only if the key  *)
(* was projected, a projected key has an entry refreshed in that frame, and *)
(* an entry disappears only when its timeout has elapsed without a refresh. *)
(***************************************************************************)
C26_Lifecycle ==
    [][\A k \in Keys :
          /\ (~Tracked(k) /\ Tracked(k)') => k \in trkHist'.proj
          /\ k \in trkHist'.proj =>
                 (Tracked(k)' /\ RefreshedAt(k)' = trkNow')
          /\ (Tracked(k) /\ ~Tracked(k)') =>
                 IF build = "bridge_121"
                 THEN trkNow' - s_nametagSmooth[k].lastSeenMs > TimeoutMs
                 ELSE g_tagFrameCounter' - g_tagSmoothing[k].lastFrame
                          > StaleFrames]_vars

\* The entities looked at, and those that got the expensive lookups.
Scanned == {nearOut.lwList[i] : i \in 1..Len(nearOut.lwList)}
Heavy == {nearOut.localList[i] : i \in 1..Len(nearOut.localList)}

(***************************************************************************)
(* C27: a pass runs the expensive lookups for at most N entities, N being   *)
(* set by the configuration and never above 20; these are as many as N      *)
(* allows, and no entity left out is nearer than one that was taken.        *)
(***************************************************************************)
C27_NearestNOnly ==
    nearOut.done =>
        /\ nearOut.max <= TagCap
        /\ Len(nearOut.localList) <= nearOut.max
        /\ Cardinality(Heavy) = Min(nearOut.max, Cardinality(Scanned))
        /\ Heavy \subseteq Scanned
        /\ \A i \in Heavy, j \in Scanned \ Heavy :
               nearIn.arr[i].dist <= nearIn.arr[j].dist

\* Three entities, the nearest last in the array, and room for two.
C27_Witness ==
    /\ nearOut.done /\ nearOut.max = 2
    /\ Len(nearIn.arr) = 3
    /\ nearIn.arr[1] = [self |-> FALSE, dist |-> 2]
    /\ nearIn.arr[2] = [self |-> FALSE, dist |-> 1]
    /\ nearIn.arr[3] = [self |-> FALSE, dist |-> 0]
    /\ Heavy = {2, 3}

(***************************************************************************)
(* C30: in a pass that holds the root instance, when the host fails to      *)
(* offer one role, every other role is still attempted and the pass         *)
(* reports success.                                                        *)
(***************************************************************************)
C30_FailureDoesNotStopPass ==
    (passOut.done /\ Cardinality(PassRoles \ passIn.host) = 1) =>
        /\ passIn.host \subseteq passOut.attempted
        /\ passOut.result

(***************************************************************************)
(* C31: whenever the render callback stands at a mutex that another thread  *)
(* holds, that thread holds it only for a copy or a swap.                   *)
(***************************************************************************)
C31_RenderWaitsOnlyForCopies ==
    (renderAt # "none" /\ mtxHolder[renderAt] # "free") =>
        mtxWork[renderAt] \in {"copy", "swap"}

(***************************************************************************)
(* C32: once the module has unloaded itself, no invocation of the render    *)
(* callback and none of the window procedure is inside it.                  *)
(***************************************************************************)
C32_NoInvocationAtUnload ==
    (helperSlept # NotIn /\ ~dllMapped) =>
        (inFrame = NotIn /\ inWndProc = NotIn)

(***************************************************************************)
(* C33: the step that starts the polling thread is a step of the load-time  *)
(* entry sequence (MainThread), not one of a later event.                   *)
(***************************************************************************)
C33_PollStartedByEntry ==
    [][(pollPc = "off" /\ pollPc' # "off") => srvPc' # srvPc]_vars

(***************************************************************************)
(* C34: the published value and every copy a reader took under the mutex    *)
(* are whole values, each the complete result of one pass.                  *)
(***************************************************************************)
C34_ReadersSeeWholeValues ==
    /\ Whole(cowPub)
    /\ \A r \in Readers : Whole(cowSnap[r])

\* The render thread holds the two-element value of one pass while the next
\* pass has built half of its own.
C34_Witness ==
    /\ cowSnap["render"].want = 2 /\ cowSnap["render"].got = 2
    /\ cowPc = "build" /\ cowLocal.pass = cowSnap["render"].pass + 1
    /\ cowLocal.got = 1 /\ cowLocal.want = 2

\* C35: every entity-list pass that gets past its throttle publishes on every
\* way out: the list it built at the normal end, the empty list when the
\* accessors, the world, the local player, the collection or its array is
\* not available, whatever an earlier pass had published.
C35_PublishesOnEveryExit ==
    /\ plExit = "end" => plPub = plIn.ents
    /\ plExit \in EarlyExits => plPub = {}
C35_Witness ==
    plBefore # {} /\ plExit = "noWorldOrSelf" /\ plPub = {}

(***************************************************************************)
(* C36: the list a pass publishes is in order of non-decreasing distance,   *)
(* so its first element, the one drawn as the closest player, is no farther *)
(* than any other published element.                                       *)
(***************************************************************************)
C36_PublishedListOrdered ==
    nearOut.done =>
        \A i, j \in 1..Len(nearOut.localList) :
            i < j => nearIn.arr[nearOut.localList[i]].dist
                        <= nearIn.arr[nearOut.localList[j]].dist

\* Two entities published, the nearer one second in the array.
C36_Witness ==
    /\ nearOut.done /\ Len(nearIn.arr) = 2
    /\ nearIn.arr[1] = [self |-> FALSE, dist |-> 2]
    /\ nearIn.arr[2] = [self |-> FALSE, dist |-> 0]
    /\ nearOut.localList = <<2, 1>>

(***************************************************************************)
(* C37: while the controller is connected, the commands written to it and   *)
(* the commands still waiting (taken by the network thread, then pending)   *)
(* are together the commands enqueued, each once and in enqueue order.      *)
(***************************************************************************)
C37_CommandsOnceInOrder ==
    cmdConn =>
        cmdWire \o cmds \o g_pendingCmds = [i \in 1..cmdCount |-> i]

(***************************************************************************)
(* C38: a frame that issues the overlay's draw calls runs with the graphics *)
(* context that was current at the backend's last initialisation.           *)
(***************************************************************************)
C38_DrawsWithInitContext ==
    ovDrew => (ovInitRc # 0 /\ ovDrawRc = ovInitRc)

\* The overlay is drawn again after the host changed its context and the
\* backend was torn down and initialised against the new one.
C38_Witness ==
    /\ ovDrew /\ ovHist.tornAt # 0 /\ ovHist.initAt > ovHist.tornAt
    /\ ovDrawRc = 2 /\ ovInitRc = 2

(***************************************************************************)
(* C39: once a transition has been detected, the render callback draws no   *)
(* container record that was scanned before it in a world other than the    *)
(* one the host is in.                                                      *)
(***************************************************************************)
C39_NoRecordFromBeforeTransition ==
    (wtDrawn.drew /\ wtDrawn.epoch < wtDrawn.at) =>
        wtDrawn.world = wtDrawn.host

(***************************************************************************)
(* C40: no inbound line makes an exception leave ParseConfig: after a line  *)
(* with a numeric value that is no number the network loop is still         *)
(* running.                                                                *)
(***************************************************************************)
C40_ParseNeverRaises == ~cfgThrew

====
